---- MODULE Spec2Model ----
(***************************************************************************)
(* State synchronisation layer of the Telescope.Browser service worker:    *)
(* the StateManager (src/service-workers/state/state-manager.ts) over the  *)
(* SimpleStorage adapter (src/service-workers/storage/storage-layer.ts).   *)
(*                                                                         *)
(* Every async method is an activation record in `calls`; it advances at   *)
(* its suspension points (storage reads and writes), and the code between  *)
(* two suspension points is one atomic action (single-threaded runtime).   *)
(***************************************************************************)
EXTENDS Integers, Sequences, FiniteSets, TLC

(* ------------------------------ bounds --------------------------------- *)
MaxTabId == 2
MaxWindowId == 2
MaxCalls == 2
MaxListeners == 2
MaxTabCalls == 1
MaxOverlapCalls == 2
MaxClock == 1
MaxInitCalls == 2
MaxMigrateCalls == 1
MaxLegacy == 2
MaxLimit == 1
MaxLimitCalls == 2
MaxRaceCalls == 3
MaxRetries == 2
MaxSendCalls == 1
MaxTxs == 1
MaxTxCalls == 4
MaxWithCalls == 4
MaxMessages == 2
MaxQueueCalls == 3
MaxCapCalls == 101
MaxFullCalls == 1003
MaxSafeCalls == 3
MaxRetryCalls == 3
MaxCleanupCalls == 1
MaxEnforceLimit == 2
MaxEnforceCalls == 2

TabIds == 1..MaxTabId
WindowIds == 1..MaxWindowId
Listeners == 1..MaxListeners

(* ------------------------------ tabs ----------------------------------- *)
\* types/shared.ts Tab: the four fields the state manager and the storage
\* layer inspect (the highlight, favicon and screenshot fields are carried
\* along untouched and never read by them).
Tab(i, w, u, t) == [id |-> i, url |-> u, title |-> t, windowId |-> w]

\* Tabs as the managers first observe them.
BaseTabs == {Tab(i, w, "u", "t") : i \in TabIds, w \in WindowIds}
\* The same tabs after a title change (input of 'update').
RetitledTabs == {Tab(i, w, "u", "t2") : i \in TabIds, w \in WindowIds}
\* Tabs lacking one of id / url / title / windowId (falsy in JavaScript).
InvalidTabs == {Tab(0, 1, "u", "t"), Tab(1, 1, "", "t"),
                Tab(1, 1, "u", ""), Tab(1, 0, "u", "t")}
TabPool == BaseTabs \cup RetitledTabs \cup InvalidTabs

NoTab == Tab(0, 0, "", "")

\* Array helpers (Array.prototype.filter / map / flat).
FilterOutId(s, i) == SelectSeq(s, LAMBDA t : t.id # i)
ReplaceById(s, tab) == [k \in 1..Len(s) |-> IF s[k].id = tab.id THEN tab ELSE s[k]]
Ids(s) == {s[k].id : k \in 1..Len(s)}
Items(s) == {s[k] : k \in 1..Len(s)}

\* Outcome of a helper that either returns an array or throws.
Ok(v) == [err |-> "", val |-> v]
Throw(e) == [err |-> e, val |-> <<>>]

(* --------------------------- operations -------------------------------- *)
\* Variant of applyTabHistoryOperation whose 'add' appends at the tail, as
\* the harpoon's does.
applyTabHistoryOperation_AddAppends(state, operation) ==
    CASE operation.type = "add" ->
           IF ~operation.hasTab THEN Throw("Tab required for add operation")
           ELSE Ok(FilterOutId(state, operation.tab.id) \o <<operation.tab>>)
      [] operation.type = "remove" ->
           IF operation.tabId = 0 THEN Throw("Tab ID required for remove operation")
           ELSE Ok(FilterOutId(state, operation.tabId))
      [] operation.type = "update" ->
           IF ~operation.hasTab THEN Throw("Tab required for update operation")
           ELSE Ok(ReplaceById(state, operation.tab))
      [] operation.type = "reorder" ->
           IF ~operation.hasTabs THEN Throw("Tabs required for reorder operation")
           ELSE Ok(operation.tabs)
      [] OTHER -> Throw("Unknown tab history operation")

\* state-manager.ts applyTabHistoryOperation
applyTabHistoryOperation(state, operation) ==
    CASE operation.type = "add" ->
           IF ~operation.hasTab THEN Throw("Tab required for add operation")
           ELSE Ok(<<operation.tab>> \o FilterOutId(state, operation.tab.id))
      [] operation.type = "remove" ->
           IF operation.tabId = 0 THEN Throw("Tab ID required for remove operation")
           ELSE Ok(FilterOutId(state, operation.tabId))
      [] operation.type = "update" ->
           IF ~operation.hasTab THEN Throw("Tab required for update operation")
           ELSE Ok(ReplaceById(state, operation.tab))
      [] operation.type = "reorder" ->
           IF ~operation.hasTabs THEN Throw("Tabs required for reorder operation")
           ELSE Ok(operation.tabs)
      [] OTHER -> Throw("Unknown tab history operation")

WindowMismatchIn(tabs, w) == \E k \in 1..Len(tabs) : tabs[k].windowId # w

\* state-manager.ts applyHarpoonOperation: the legacy flat variant, which
\* the class still carries; it has no window checks.
applyHarpoonOperation(state, operation) ==
    CASE operation.type = "add" ->
           IF ~operation.hasTab THEN Throw("Tab required for add operation")
           ELSE Ok(FilterOutId(state, operation.tab.id) \o <<operation.tab>>)
      [] operation.type = "remove" ->
           IF operation.tabId = 0 THEN Throw("Tab ID required for remove operation")
           ELSE Ok(FilterOutId(state, operation.tabId))
      [] operation.type = "update" ->
           IF ~operation.hasTab THEN Throw("Tab required for update operation")
           ELSE Ok(ReplaceById(state, operation.tab))
      [] operation.type = "clear" -> Ok(<<>>)
      [] operation.type = "reorder" ->
           IF ~operation.hasTabs THEN Throw("Tabs required for reorder operation")
           ELSE Ok(operation.tabs)
      [] OTHER -> Throw("Unknown harpoon operation")

\* Variant of applyHarpoonOperationToWindow whose 'add' pushes without
\* first filtering out the entry with the same id.
applyHarpoonOperationToWindow_AddNoFilter(windowState, operation) ==
    IF operation.type = "add" /\ operation.hasTab
       /\ operation.tab.windowId = operation.windowId
    THEN Ok(Append(windowState, operation.tab))
    ELSE applyHarpoonOperation(windowState, operation)

\* Variant of applyHarpoonOperationToWindow without the comparison of the
\* tab's windowId with the operation's.
applyHarpoonOperationToWindow_NoWindowCheck(windowState, operation) ==
    applyHarpoonOperation(windowState, operation)

\* state-manager.ts applyHarpoonOperationToWindow
applyHarpoonOperationToWindow(windowState, operation) ==
    CASE operation.type = "add" ->
           IF ~operation.hasTab THEN Throw("Tab required for add operation")
           ELSE IF operation.tab.windowId # operation.windowId
                THEN Throw("Tab window ID does not match operation window ID")
           ELSE Ok(FilterOutId(windowState, operation.tab.id) \o <<operation.tab>>)
      [] operation.type = "remove" ->
           IF operation.tabId = 0 THEN Throw("Tab ID required for remove operation")
           ELSE Ok(FilterOutId(windowState, operation.tabId))
      [] operation.type = "update" ->
           IF ~operation.hasTab THEN Throw("Tab required for update operation")
           ELSE IF operation.tab.windowId # operation.windowId
                THEN Throw("Tab window ID does not match operation window ID")
           ELSE Ok(ReplaceById(windowState, operation.tab))
      [] operation.type = "clear" -> Ok(<<>>)
      [] operation.type = "reorder" ->
           IF ~operation.hasTabs THEN Throw("Tabs required for reorder operation")
           ELSE IF WindowMismatchIn(operation.tabs, operation.windowId)
                THEN Throw("Tab window ID does not match operation window ID")
           ELSE Ok(operation.tabs)
      [] OTHER -> Throw("Unknown harpoon operation")

\* `!tab.id || !tab.url || !tab.title || !tab.windowId`
TabIsFalsy(tab) == tab.id = 0 \/ tab.url = "" \/ tab.title = "" \/ tab.windowId = 0

\* state-manager.ts validateTabHistory / validateHarpoonTabs: TRUE when the
\* validator returns, FALSE when it throws.
validateTabHistory(tabs) == \A k \in 1..Len(tabs) : ~TabIsFalsy(tabs[k])
validateHarpoonTabs(tabs) == \A k \in 1..Len(tabs) : ~TabIsFalsy(tabs[k])

(* ------------------------ window state / health ------------------------ *)
\* Partial<WindowState>: `has` names the fields the caller supplied.
\* activeTabId 0 stands for null (tab ids are positive).
WPartial(has, f, la, at) ==
    [has |-> has, id |-> 0, focused |-> f, lastActivity |-> la, activeTabId |-> at]
NoWPartial == WPartial({}, FALSE, 0, 0)

\* Object spread { ...base, ...partial } on WindowState.
SpreadWindow(base, partial) ==
    [id           |-> IF "id" \in partial.has THEN partial.id ELSE base.id,
     focused      |-> IF "focused" \in partial.has THEN partial.focused ELSE base.focused,
     lastActivity |-> IF "lastActivity" \in partial.has THEN partial.lastActivity
                      ELSE base.lastActivity,
     activeTabId  |-> IF "activeTabId" \in partial.has THEN partial.activeTabId
                      ELSE base.activeTabId]

\* Partial<SystemHealth>
HPartial(has, ec, lhc, lc) ==
    [has |-> has, version |-> 0, lastCleanup |-> lc, errorCount |-> ec,
     lastHealthCheck |-> lhc]
NoHPartial == HPartial({}, 0, 0, 0)

\* Object spread { ...this.systemHealthState, ...updates }.
SpreadHealth(base, partial) ==
    [version         |-> IF "version" \in partial.has THEN partial.version ELSE base.version,
     lastCleanup     |-> IF "lastCleanup" \in partial.has THEN partial.lastCleanup
                         ELSE base.lastCleanup,
     errorCount      |-> IF "errorCount" \in partial.has THEN partial.errorCount
                         ELSE base.errorCount,
     lastHealthCheck |-> IF "lastHealthCheck" \in partial.has THEN partial.lastHealthCheck
                         ELSE base.lastHealthCheck]

\* Records keyed by window id (Record<number, T>).
EmptyMap == [w \in {} |-> <<>>]
MapSet(m, k, v) == [w \in DOMAIN m \cup {k} |-> IF w = k THEN v ELSE m[w]]
MapDelete(m, k) == [w \in DOMAIN m \ {k} |-> m[w]]

\* WindowState objects live on a heap: the records of window states hold
\* references, because 'focus' mutates the shared objects in place.
Deref(m, heap) == [w \in DOMAIN m |-> heap[m[w]]]

\* state-manager.ts applyWindowStateOperation.  `state` maps window ids to
\* heap references; the result carries the heap after the call.
applyWindowStateOperation(state, operation, heap, clock) ==
    LET w == operation.windowId IN
    CASE operation.type = "create" ->
           IF ~operation.hasState
           THEN [err |-> "State required for create operation", val |-> state, heap |-> heap]
           ELSE [err |-> "",
                 val |-> MapSet(state, w, Len(heap) + 1),
                 heap |-> Append(heap,
                            SpreadWindow([id |-> w, focused |-> FALSE,
                                          lastActivity |-> clock, activeTabId |-> 0],
                                         operation.state))]
      [] operation.type = "update" ->
           IF ~operation.hasState
           THEN [err |-> "State required for update operation", val |-> state, heap |-> heap]
           ELSE IF w \in DOMAIN state
                THEN [err |-> "",
                      val |-> MapSet(state, w, Len(heap) + 1),
                      heap |-> Append(heap, SpreadWindow(heap[state[w]], operation.state))]
                ELSE [err |-> "", val |-> state, heap |-> heap]
      [] operation.type = "remove" ->
           [err |-> "", val |-> MapDelete(state, w), heap |-> heap]
      [] operation.type = "focus" ->
           LET shared == {state[x] : x \in DOMAIN state}
               unfocused == [r \in 1..Len(heap) |->
                               IF r \in shared THEN [heap[r] EXCEPT !.focused = FALSE]
                               ELSE heap[r]]
           IN [err |-> "", val |-> state,
               heap |-> IF w \in DOMAIN state
                        THEN [unfocused EXCEPT ![state[w]].focused = TRUE]
                        ELSE unfocused]
      [] OTHER -> [err |-> "Unknown window state operation", val |-> state, heap |-> heap]

(* ------------------------- operation records --------------------------- *)
\* TabHistoryOperation / HarpoonOperation / WindowStateOperation and the
\* Partial<SystemHealth> argument of updateSystemHealth, as one record
\* shape.  hasTab / hasTabs / hasState say whether the optional argument is
\* present; tabId 0 stands for an absent (or zero) tabId, both of which
\* `!operation.tabId` treats alike.
Op(ty, w, hasTab, tab, tabId, hasTabs, tabs) ==
    [type |-> ty, windowId |-> w, hasTab |-> hasTab, tab |-> tab,
     tabId |-> tabId, hasTabs |-> hasTabs, tabs |-> tabs,
     hasState |-> FALSE, state |-> NoWPartial, updates |-> NoHPartial]
WOp(ty, w, hasState, partial) ==
    [Op(ty, w, FALSE, NoTab, 0, FALSE, <<>>) EXCEPT !.hasState = hasState, !.state = partial]
HOp(partial) ==
    [Op("health", 0, FALSE, NoTab, 0, FALSE, <<>>) EXCEPT !.updates = partial]
NoOp == Op("", 0, FALSE, NoTab, 0, FALSE, <<>>)

(* ------------------------------ state ---------------------------------- *)
VARIABLES
    isInitialized,          \* StateManager.isInitialized
    tabHistoryState,        \* StateManager.tabHistoryState: Tab[]
    harpoonTabsState,       \* StateManager.harpoonTabsState (legacy): Tab[]
    harpoonWindowsState,    \* StateManager.harpoonWindowsState: Record<number, Tab[]>
    windowStatesState,      \* StateManager.windowStatesState: window id -> heap reference
    systemHealthState,      \* StateManager.systemHealthState
    heap,                   \* the WindowState objects, by reference
    tabHistoryListeners,    \* the four listener Sets, in insertion order
    harpoonTabsListeners,
    windowStatesListeners,
    systemHealthListeners,
    store,                  \* chrome.storage.local: the value under each key
    present,                \* chrome.storage.local: the keys that have a value
    calls,                  \* pending activations of the async methods, in call order
    last,                   \* the activation that settled most recently
    issued,                 \* number of method calls made so far
    expected,               \* per window: ids added to and not since removed from its harpoon
    now,                    \* Date.now()
    readLog,                \* storage.read calls issued, per key
    writeLog,               \* storage.write calls issued, per key
    maxHarpoonTabs,         \* HarpoonManager.maxHarpoonTabs
    messageCounter,         \* MessageBroker.messageCounter
    transactionCounter,     \* MessageBroker.transactionCounter
    txs,                    \* the MessageTransaction objects created so far, by handle
    activeTransactions,     \* MessageBroker.activeTransactions: handles, in insertion order
    jobs,                   \* pending activations of the broker's async methods
    lastJob,                \* the broker call that settled most recently
    messageQueue,           \* MessageBroker.messageQueue: QueuedMessage[]
    processingQueue,        \* MessageBroker.processingQueue
    isInSafeMode,           \* RecoveryManager.isInSafeMode
    lastHealthCheck,        \* RecoveryManager.lastHealthCheck (NoHealth: null)
    recoveryInProgress,     \* RecoveryManager.recoveryInProgress
    healthCheckInterval     \* RecoveryManager.healthCheckInterval: the timer is running

memVars == <<isInitialized, tabHistoryState, harpoonTabsState, harpoonWindowsState,
             windowStatesState, systemHealthState, heap>>
listenerVars == <<tabHistoryListeners, harpoonTabsListeners, windowStatesListeners,
                  systemHealthListeners>>
storeVars == <<store, present>>
callVars == <<calls, last, issued, expected>>
\* the fields of the other singletons of the service worker
queueVars == <<messageQueue, processingQueue>>
brokerVars == <<messageCounter, transactionCounter, txs, activeTransactions, jobs, lastJob,
                queueVars>>
recoveryVars == <<isInSafeMode, lastHealthCheck, recoveryInProgress, healthCheckInterval>>
peerVars == <<maxHarpoonTabs, brokerVars, recoveryVars>>
vars == <<memVars, listenerVars, storeVars, callVars, now, readLog, writeLog, peerVars>>

StorageKeys == {"tabHistory", "harpoonHistory", "harpoonWindows", "windowStates",
                "systemHealth"}

\* The fields of the StateManager instance as one record, so that the code
\* between two suspension points composes as a function on it.
Mem == [isInitialized |-> isInitialized, tabHistoryState |-> tabHistoryState,
        harpoonTabsState |-> harpoonTabsState,
        harpoonWindowsState |-> harpoonWindowsState,
        windowStatesState |-> windowStatesState,
        systemHealthState |-> systemHealthState, heap |-> heap]

Commit(m) ==
    /\ isInitialized' = m.isInitialized
    /\ tabHistoryState' = m.tabHistoryState
    /\ harpoonTabsState' = m.harpoonTabsState
    /\ harpoonWindowsState' = m.harpoonWindowsState
    /\ windowStatesState' = m.windowStatesState
    /\ systemHealthState' = m.systemHealthState
    /\ heap' = m.heap

\* Object.values(record).flat(): integer keys enumerate in ascending order.
RECURSIVE FlatFrom(_, _)
FlatFrom(m, keys) ==
    IF keys = {} THEN <<>>
    ELSE LET k == CHOOSE x \in keys : \A y \in keys : x <= y
         IN m[k] \o FlatFrom(m, keys \ {k})
Flat(m) == FlatFrom(m, DOMAIN m)

(* ------------------------------ getters -------------------------------- *)
\* state-manager.ts getTabHistory / getTabHistoryForWindow / getHarpoonTabs /
\* getHarpoonTabsForWindow / getWindowStates / getSystemHealth
getTabHistory == tabHistoryState
getTabHistoryForWindow(windowId) == SelectSeq(tabHistoryState, LAMBDA t : t.windowId = windowId)
getHarpoonTabs == Flat(harpoonWindowsState)
getHarpoonTabsForWindow(windowId) ==
    IF windowId \in DOMAIN harpoonWindowsState THEN harpoonWindowsState[windowId] ELSE <<>>
getWindowStates == Deref(windowStatesState, heap)
getSystemHealth == systemHealthState

(* ------------------------------ calls ---------------------------------- *)
DefaultHealth == [version |-> 1, lastCleanup |-> 0, errorCount |-> 0, lastHealthCheck |-> 0]

(* --------------------------- health results ---------------------------- *)
\* recovery-manager.ts determineComponentStatus(score)
determineComponentStatus(score) ==
    IF score >= 90 THEN "healthy"
    ELSE IF score >= 70 THEN "degraded"
    ELSE IF score >= 50 THEN "critical"
    ELSE "critical"

\* ComponentHealth: errors stands for errors.length.
Component(name, score, errors) ==
    [name |-> name, status |-> determineComponentStatus(score), score |-> score,
     errors |-> errors]

\* The scores the seven component checks compute from what they observe.
\* checkStorageHealth: info / write are how storage.getStorageInfo() and
\* storage.write() ended; after a throwing getStorageInfo nothing is written.
checkStorageHealth(info, usagePercent, write) ==
    LET afterQuota == (100 - (IF usagePercent > 80 THEN 10 ELSE 0))
                          - (IF usagePercent > 95 THEN 30 ELSE 0)
    IN IF info = "throws" THEN Component("Storage", 100 - 50, 1)
       ELSE IF write = "throws"
            THEN Component("Storage", afterQuota - 50, (IF usagePercent > 95 THEN 1 ELSE 0) + 1)
            ELSE Component("Storage", afterQuota, IF usagePercent > 95 THEN 1 ELSE 0)
checkStateManagerHealth(tabHistoryLength, harpoonTabsLength) ==
    Component("State Manager",
              (100 - (IF tabHistoryLength > 1000 THEN 10 ELSE 0))
                  - (IF harpoonTabsLength > 100 THEN 10 ELSE 0), 0)
checkMessagingHealth(queueSize) ==
    Component("Messaging",
              (100 - (IF queueSize > 100 THEN 10 ELSE 0)) - (IF queueSize > 1000 THEN 30 ELSE 0),
              IF queueSize > 1000 THEN 1 ELSE 0)
\* tabManager.cleanupInvalidTabs() catches what it throws.
checkTabManagerHealth(tabHistoryLength) ==
    Component("Tab Manager", 100 - (IF tabHistoryLength = 0 THEN 5 ELSE 0), 0)
\* windowManager.cleanupClosedWindows() and getAllWindowInfo() catch what
\* they throw; getAllWindowInfo then returns [].
checkWindowManagerHealth(windowInfoLength) ==
    Component("Window Manager", 100 - (IF windowInfoLength = 0 THEN 10 ELSE 0), 0)
\* screenshotManager.getScreenshotStats() catches what it throws; totalSize
\* in MB, cacheHitRatio in percent.
checkScreenshotManagerHealth(totalSize, cacheHitRatio) ==
    Component("Screenshot Manager",
              (100 - (IF totalSize > 10 THEN 10 ELSE 0)) - (IF cacheHitRatio < 50 THEN 5 ELSE 0),
              0)
\* harpoonManager.validateAndCleanupHarpoonTabs() rethrows.
checkHarpoonManagerHealth(validation, removedCount, totalTabs, max) ==
    IF validation = "throws" THEN Component("Harpoon Manager", 100 - 50, 1)
    ELSE Component("Harpoon Manager",
                   (100 - (IF removedCount > 0 THEN 5 ELSE 0))
                       - (IF totalTabs > max THEN 10 ELSE 0), 0)

RECURSIVE SumOfScores(_)
SumOfScores(components) ==
    IF components = <<>> THEN 0
    ELSE components[1].score + SumOfScores(Tail(components))

\* Variant of determineOverallStatus that looks at the mean only.
determineOverallStatus_MeanOnly(components, scoreSum) ==
    IF scoreSum >= 90 * Len(components) THEN "healthy"
    ELSE IF scoreSum >= 70 * Len(components) THEN "degraded"
    ELSE "critical"

\* determineOverallStatus(components, overallScore): overallScore is
\* scoreSum / components.length, so overallScore >= 90 exactly when
\* scoreSum >= 90 * components.length.
determineOverallStatus(components, scoreSum) ==
    LET criticalComponents == SelectSeq(components, LAMBDA c : c.status = "critical")
    IN IF Len(criticalComponents) > 0 THEN "critical"
       ELSE IF scoreSum >= 90 * Len(components) THEN "healthy"
       ELSE IF scoreSum >= 70 * Len(components) THEN "degraded"
       ELSE "critical"

\* generateRecommendations(components): one string per critical and per
\* degraded component.
generateRecommendations(components) ==
    LET flagged == SelectSeq(components, LAMBDA c : c.status \in {"critical", "degraded"})
    IN [k \in 1..Len(flagged) |->
           [issue |-> IF flagged[k].status = "critical" THEN "Critical issue"
                      ELSE "Performance issue",
            name |-> flagged[k].name]]

\* HealthCheckResult; overallScore is scoreSum / components.length.
NoHealth == [status |-> "null", components |-> <<>>, scoreSum |-> 0,
             recommendations |-> <<>>, timestamp |-> 0]

\* checkHealth from `overallScore = components.reduce(...)` to `const result`.
healthResult(components, clock) ==
    [status |-> determineOverallStatus(components, SumOfScores(components)),
     components |-> components, scoreSum |-> SumOfScores(components),
     recommendations |-> generateRecommendations(components), timestamp |-> clock]

\* cleanupInvalidTabs: allTabs, harpoonTabs, invalidTabIds in insertion
\* order, the position of the for loop, and what chrome.tabs.get and
\* chrome.windows.get answered to the validations.
NoCleanup == [allTabs |-> <<>>, harpoonTabs |-> <<>>, invalidTabIds |-> <<>>, at |-> 0,
              tabAnswers |-> <<>>, windowAnswers |-> <<>>]

\* One activation of an async method: its position (pc), its outcome and
\* the locals that live across its suspension points.
NewCall(fn, op) ==
    [fn |-> fn, pc |-> "start", err |-> "", op |-> op,
     accepted |-> FALSE,            \* the synchronous phase passed validation
     ranInit |-> FALSE,             \* the activation ran the body of initialize()
     \* locals of initialize()
     tabHistory |-> <<>>, legacyHarpoonTabs |-> <<>>, harpoonWindows |-> EmptyMap,
     windowStates |-> EmptyMap, systemHealth |-> DefaultHealth,
     migratedHarpoonWindows |-> EmptyMap,
     \* locals of the update methods
     prevTabs |-> <<>>,             \* previousState / previousGlobalState
     newTabs |-> <<>>,              \* newState (tab history)
     newWindows |-> EmptyMap,       \* newHarpoonWindows
     prevW |-> EmptyMap,            \* previousState (window states, references)
     newW |-> EmptyMap,             \* newState (window states, references)
     writeW |-> EmptyMap,           \* newState as serialised for the write
     prevH |-> DefaultHealth, newH |-> DefaultHealth,
     \* locals of the HarpoonManager methods
     tabId |-> 0,                   \* addTabToHarpoon's argument
     windowIds |-> {},              \* enforceMaxHarpoonTabsForAllWindows: windows still to visit
     \* locals of the RecoveryManager methods
     components |-> <<>>,           \* checkHealth: components pushed so far
     usagePercent |-> 0,            \* checkStorageHealth: usagePercent
     threw |-> {},                  \* checkHealth: the awaited steps that threw
     health |-> NoHealth,           \* checkHealth: the result it returns
     recovering |-> FALSE,          \* a recoverFromCorruption frame is on the stack
     plan |-> <<>>,                 \* recoveryPlan.actions
     executed |-> <<>>,             \* executeRecoveryPlan: the actions entered, in order
     failed |-> FALSE,              \* executeRecoveryPlan returned false
     postChecked |-> FALSE,         \* recoverFromCorruption reached its checkHealth()
     returned |-> "",               \* recoverFromCorruption: "true" / "false"
     errorCount |-> 0,              \* handleError: systemHealth.errorCount as read
     viaTimer |-> FALSE,            \* checkHealth: called by the interval timer
     cleanup |-> NoCleanup,         \* cleanupInvalidTabs: its locals
     awaitJob |-> 0,                \* counter of the broadcast message awaited
     \* what the listeners were handed
     notified |-> <<>>, notifyNewTabs |-> <<>>, notifyPrevTabs |-> <<>>,
     notifyNewW |-> EmptyMap, notifyPrevW |-> EmptyMap]

Rejected(m, c, e) ==
    [m |-> m, call |-> [c EXCEPT !.pc = "rejected", !.err = e], wrote |-> ""]

Settled(c) == c.pc \in {"resolved", "rejected"}

\* What is observable of a settled activation: how its promise settled and
\* what its listeners were handed.
Outcome(c) ==
    [NewCall(c.fn, NoOp) EXCEPT !.pc = c.pc, !.err = c.err, !.accepted = c.accepted,
                                !.ranInit = c.ranInit, !.notified = c.notified,
                                !.notifyNewTabs = c.notifyNewTabs,
                                !.notifyPrevTabs = c.notifyPrevTabs,
                                !.notifyNewW = c.notifyNewW, !.notifyPrevW = c.notifyPrevW,
                                !.threw = c.threw, !.health = c.health,
                                !.recovering = c.recovering, !.plan = c.plan,
                                !.executed = c.executed, !.failed = c.failed,
                                !.postChecked = c.postChecked, !.returned = c.returned,
                                !.errorCount = c.errorCount, !.viaTimer = c.viaTimer,
                                !.cleanup = c.cleanup]
RemoveAt(s, i) == [k \in 1..(Len(s) - 1) |-> IF k < i THEN s[k] ELSE s[k + 1]]

\* The activation at position i has become c: it stays pending, or it
\* settles (its promise resolves or rejects) and leaves the pending list.
Advance(i, c) ==
    IF Settled(c)
    THEN calls' = RemoveAt(calls, i) /\ last' = Outcome(c)
    ELSE calls' = [calls EXCEPT ![i] = c] /\ UNCHANGED last

\* A new activation c: pending, or settled before its first suspension.
Enter(c) ==
    /\ issued' = issued + 1
    /\ IF Settled(c)
       THEN last' = Outcome(c) /\ UNCHANGED calls
       ELSE calls' = Append(calls, c) /\ UNCHANGED last

\* Bookkeeping for the harpoon partitions, kept beside the program: per
\* window the ids added and not since removed, and whether the partition
\* has been built by add / remove / update (and clear) alone; 'reorder'
\* installs a caller-supplied sequence and ends that.
ExpectedLoaded(hw) ==
    [w \in 0..MaxWindowId |->
        IF w \in DOMAIN hw
        THEN [ids |-> Ids(hw[w]), pure |-> Len(hw[w]) = Cardinality(Ids(hw[w]))]
        ELSE [ids |-> {}, pure |-> TRUE]]

ExpectedAfter(e, c) ==
    IF c.fn # "updateHarpoonTabs" \/ ~c.accepted THEN e
    ELSE LET w == c.op.windowId IN
         CASE c.op.type = "add" -> [e EXCEPT ![w].ids = @ \cup {c.op.tab.id}]
           [] c.op.type = "remove" -> [e EXCEPT ![w].ids = @ \ {c.op.tabId}]
           [] c.op.type = "clear" -> [e EXCEPT ![w] = [ids |-> {}, pure |-> TRUE]]
           [] c.op.type = "reorder" ->
                [e EXCEPT ![w] = [ids |-> Ids(c.op.tabs), pure |-> FALSE]]
           [] OTHER -> e

\* The same for an updateHarpoonTabs issued from inside another method
\* (wrote is empty when none was issued).
ExpectedIssued(e, c, wrote) ==
    IF wrote = "" THEN e ELSE ExpectedAfter(e, [c EXCEPT !.fn = "updateHarpoonTabs"])

(* ---------------- synchronous phases of the update methods -------------- *)
\* Each takes the instance fields m and the activation c and yields the
\* fields and the activation at the method's `await storage.write(...)`
\* (wrote names the key written), or the activation rejected.

\* Variant of updateTabHistorySync that replaces the slice before it
\* validates the new state.
updateTabHistorySync_AssignFirst(m, c) ==
    LET r == applyTabHistoryOperation(m.tabHistoryState, c.op)
    IN IF r.err # "" THEN Rejected(m, c, r.err)
       ELSE IF ~validateTabHistory(r.val)
            THEN Rejected([m EXCEPT !.tabHistoryState = r.val], c, "Invalid tab in history")
       ELSE [m |-> [m EXCEPT !.tabHistoryState = r.val],
             call |-> [c EXCEPT !.pc = "awaitWrite", !.accepted = TRUE,
                                !.prevTabs = m.tabHistoryState, !.newTabs = r.val],
             wrote |-> "tabHistory"]

\* Variant of updateTabHistorySync that leaves the slice alone until the
\* write has resolved (the order updateWindowState uses).
updateTabHistorySync_WriteFirst(m, c) ==
    LET r == applyTabHistoryOperation(m.tabHistoryState, c.op)
    IN IF r.err # "" THEN Rejected(m, c, r.err)
       ELSE IF ~validateTabHistory(r.val) THEN Rejected(m, c, "Invalid tab in history")
       ELSE [m |-> m,
             call |-> [c EXCEPT !.pc = "awaitWrite", !.accepted = TRUE,
                                !.prevTabs = m.tabHistoryState, !.newTabs = r.val],
             wrote |-> "tabHistory"]

\* state-manager.ts updateTabHistory, from `const previousState` to the
\* call of storage.write.
updateTabHistorySync(m, c) ==
    LET previousState == m.tabHistoryState
        r == applyTabHistoryOperation(previousState, c.op)
    IN IF r.err # "" THEN Rejected(m, c, r.err)
       ELSE IF ~validateTabHistory(r.val) THEN Rejected(m, c, "Invalid tab in history")
       ELSE [m |-> [m EXCEPT !.tabHistoryState = r.val],
             call |-> [c EXCEPT !.pc = "awaitWrite", !.accepted = TRUE,
                                !.prevTabs = previousState, !.newTabs = r.val],
             wrote |-> "tabHistory"]

\* state-manager.ts updateHarpoonTabs, from `const { windowId }` to the call
\* of storage.write.
updateHarpoonTabsSync(m, c) ==
    LET windowId == c.op.windowId
        previousWindowState ==
            IF windowId \in DOMAIN m.harpoonWindowsState
            THEN m.harpoonWindowsState[windowId] ELSE <<>>
        previousGlobalState == Flat(m.harpoonWindowsState)
        r == applyHarpoonOperationToWindow(previousWindowState, c.op)
        newHarpoonWindows ==
            IF Len(r.val) = 0 THEN MapDelete(m.harpoonWindowsState, windowId)
            ELSE MapSet(m.harpoonWindowsState, windowId, r.val)
    IN IF r.err # "" THEN Rejected(m, c, r.err)
       ELSE IF ~validateHarpoonTabs(r.val) THEN Rejected(m, c, "Invalid tab in harpoon")
       ELSE [m |-> [m EXCEPT !.harpoonWindowsState = newHarpoonWindows],
             call |-> [c EXCEPT !.pc = "awaitWrite", !.accepted = TRUE,
                                !.prevTabs = previousGlobalState,
                                !.newWindows = newHarpoonWindows],
             wrote |-> "harpoonWindows"]

\* state-manager.ts updateWindowState, from `const previousState` to the
\* call of storage.write: the in-memory record is NOT replaced here, but a
\* 'focus' has already mutated the shared WindowState objects.
updateWindowStateSync(m, c, clock) ==
    LET previousState == m.windowStatesState
        r == applyWindowStateOperation(previousState, c.op, m.heap, clock)
    IN IF r.err # "" THEN Rejected(m, c, r.err)
       ELSE [m |-> [m EXCEPT !.heap = r.heap],
             call |-> [c EXCEPT !.pc = "awaitWrite", !.accepted = TRUE,
                                !.prevW = previousState, !.newW = r.val,
                                !.writeW = Deref(r.val, r.heap)],
             wrote |-> "windowStates"]

\* state-manager.ts updateSystemHealth, from `const previousState` to the
\* call of storage.write: the in-memory record is NOT replaced here.
updateSystemHealthSync(m, c) ==
    LET previousState == m.systemHealthState
        newState == SpreadHealth(m.systemHealthState, c.op.updates)
    IN [m |-> m,
        call |-> [c EXCEPT !.pc = "awaitWrite", !.accepted = TRUE,
                           !.prevH = previousState, !.newH = newState],
        wrote |-> "systemHealth"]

\* The synchronous phase of the method activation c runs.
SyncPhase(m, c, clock) ==
    CASE c.fn = "updateTabHistory" -> updateTabHistorySync(m, c)
      [] c.fn = "updateHarpoonTabs" -> updateHarpoonTabsSync(m, c)
      [] c.fn = "updateWindowState" -> updateWindowStateSync(m, c, clock)
      [] c.fn = "updateSystemHealth" -> updateSystemHealthSync(m, c)
      [] OTHER -> [m |-> m, call |-> [c EXCEPT !.pc = "resolved"], wrote |-> ""]

Bump(log, key) == IF key = "" THEN log ELSE [log EXCEPT ![key] = @ + 1]

(* ------------------------------ listeners ------------------------------ *)
\* The behaviour of a listener is fixed: listener 1 throws whenever it is
\* invoked, the others return.
ListenerThrows(l) == l = 1

\* for (const listener of set) { try { listener(...) } catch { log } }:
\* every listener is invoked and no exception leaves the loop.
InvokeEachCatching(ls) == [invoked |-> ls, escaped |-> FALSE]

\* Variant of notifyTabHistoryListeners without the try / catch: the first
\* exception ends the loop and leaves the function.
notifyTabHistoryListeners_NoCatch(ls) ==
    LET throwers == {k \in 1..Len(ls) : ListenerThrows(ls[k])}
        first == CHOOSE k \in throwers : \A j \in throwers : k <= j
    IN IF throwers = {} THEN [invoked |-> ls, escaped |-> FALSE]
       ELSE [invoked |-> SubSeq(ls, 1, first), escaped |-> TRUE]

\* state-manager.ts notifyTabHistoryListeners, notifyHarpoonTabsListeners,
\* notifyWindowStatesListeners, notifySystemHealthListeners
notifyTabHistoryListeners(ls) == InvokeEachCatching(ls)
notifyHarpoonTabsListeners(ls) == InvokeEachCatching(ls)
notifyWindowStatesListeners(ls) == InvokeEachCatching(ls)
notifySystemHealthListeners(ls) == InvokeEachCatching(ls)

\* Set.prototype.add / delete on a Set kept in insertion order.
SetAdd(ls, l) == IF \E k \in 1..Len(ls) : ls[k] = l THEN ls ELSE Append(ls, l)
SetDelete(ls, l) == SelectSeq(ls, LAMBDA x : x # l)

(* ------------------------------ initialize ----------------------------- *)
\* The reads of initialize(), in program order.
ReadKey(pc) ==
    CASE pc = "readTabHistory" -> "tabHistory"
      [] pc = "readHarpoonHistory" -> "harpoonHistory"
      [] pc = "readHarpoonWindows" -> "harpoonWindows"
      [] pc = "readWindowStates" -> "windowStates"
      [] pc = "readSystemHealth" -> "systemHealth"
      [] OTHER -> ""
NextRead(pc) ==
    CASE pc = "readTabHistory" -> "readHarpoonHistory"
      [] pc = "readHarpoonHistory" -> "readHarpoonWindows"
      [] pc = "readHarpoonWindows" -> "readWindowStates"
      [] pc = "readWindowStates" -> "readSystemHealth"
      [] OTHER -> ""
ReadPcs == {"readTabHistory", "readHarpoonHistory", "readHarpoonWindows",
            "readWindowStates", "readSystemHealth"}
InitWritePcs == {"writeHarpoonWindows", "writeHarpoonHistory"}

\* initialize(), lines 75-81: group the legacy tabs by window, in order.
RECURSIVE GroupFrom(_, _, _)
GroupFrom(tabs, k, acc) ==
    IF k > Len(tabs) THEN acc
    ELSE LET tab == tabs[k]
             slot == IF tab.windowId \in DOMAIN acc THEN acc
                     ELSE MapSet(acc, tab.windowId, <<>>)
         IN GroupFrom(tabs, k + 1, [slot EXCEPT ![tab.windowId] = Append(@, tab)])
migrateLegacy(legacyHarpoonTabs) == GroupFrom(legacyHarpoonTabs, 1, EmptyMap)

\* Variant of needsMigration that does not look at the partitioned data.
needsMigration_IgnoresPartitions(legacyHarpoonTabs, harpoonWindows) ==
    Len(legacyHarpoonTabs) > 0

\* initialize(), line 71
needsMigration(legacyHarpoonTabs, harpoonWindows) ==
    Len(legacyHarpoonTabs) > 0 /\ DOMAIN harpoonWindows = {}

\* The WindowState objects of a record read from storage are fresh objects.
RECURSIVE LoadFrom(_, _, _, _)
LoadFrom(ws, keys, acc, hp) ==
    IF keys = {} THEN [val |-> acc, heap |-> hp]
    ELSE LET k == CHOOSE x \in keys : \A y \in keys : x <= y
         IN LoadFrom(ws, keys \ {k}, MapSet(acc, k, Len(hp) + 1), Append(hp, ws[k]))

\* initialize(), lines 87-111: the assignments that end a successful
\* initialisation.  hw and legacy are the harpoon values of the branch taken.
finishInitialize(m, c, hw, legacy) ==
    LET loaded == LoadFrom(c.windowStates, DOMAIN c.windowStates, EmptyMap, m.heap)
    IN [m EXCEPT !.harpoonWindowsState = hw,
                 !.harpoonTabsState = legacy,
                 !.tabHistoryState = c.tabHistory,
                 !.windowStatesState = loaded.val,
                 !.heap = loaded.heap,
                 !.systemHealthState = c.systemHealth,
                 !.isInitialized = TRUE]

\* What the method that awaited initialize() does next: initialize() itself
\* resolves, an update method runs its synchronous phase on the fields just
\* loaded.
AfterInitialize(m, c) ==
    IF c.fn = "initialize" THEN [m |-> m, call |-> [c EXCEPT !.pc = "resolved"], wrote |-> ""]
    ELSE SyncPhase(m, c, now)

\* The value a read resolves with: storage.read(key) || default.
ReadValue(c, key) ==
    CASE key = "tabHistory" ->
           [c EXCEPT !.tabHistory = IF key \in present THEN store.tabHistory ELSE <<>>]
      [] key = "harpoonHistory" ->
           [c EXCEPT !.legacyHarpoonTabs =
                        IF key \in present THEN store.harpoonHistory ELSE <<>>]
      [] key = "harpoonWindows" ->
           [c EXCEPT !.harpoonWindows =
                        IF key \in present THEN store.harpoonWindows ELSE EmptyMap]
      [] key = "windowStates" ->
           [c EXCEPT !.windowStates =
                        IF key \in present THEN store.windowStates ELSE EmptyMap]
      [] key = "systemHealth" ->
           [c EXCEPT !.systemHealth =
                        IF key \in present THEN store.systemHealth ELSE systemHealthState]
      [] OTHER -> c

\* Variant of Initialize without the `if (this.isInitialized) return`.
Initialize_NoGuard ==
    /\ Enter([NewCall("initialize", NoOp) EXCEPT !.pc = "readTabHistory", !.ranInit = TRUE])
    /\ readLog' = Bump(readLog, "tabHistory")
    /\ UNCHANGED <<peerVars, memVars, listenerVars, storeVars, now, writeLog, expected>>

\* initialize() is called.
Initialize ==
    /\ IF isInitialized
       THEN /\ Enter([NewCall("initialize", NoOp) EXCEPT !.pc = "resolved"])
            /\ UNCHANGED readLog
       ELSE /\ Enter([NewCall("initialize", NoOp) EXCEPT
                         !.pc = "readTabHistory", !.ranInit = TRUE])
            /\ readLog' = Bump(readLog, "tabHistory")
    /\ UNCHANGED <<peerVars, memVars, listenerVars, storeVars, now, writeLog, expected>>

\* A storage.read awaited by initialize() resolves.
InitReadOk(i) ==
    /\ i \in 1..Len(calls)
    /\ calls[i].pc \in ReadPcs
    /\ LET c == ReadValue(calls[i], ReadKey(calls[i].pc)) IN
       IF c.pc # "readSystemHealth"
       THEN /\ Advance(i, [c EXCEPT !.pc = NextRead(c.pc)])
            /\ readLog' = Bump(readLog, ReadKey(NextRead(c.pc)))
            /\ UNCHANGED <<memVars, writeLog, expected>>
       ELSE IF needsMigration(c.legacyHarpoonTabs, c.harpoonWindows)
       THEN /\ Advance(i, [c EXCEPT !.pc = "writeHarpoonWindows",
                                     !.migratedHarpoonWindows =
                                         migrateLegacy(c.legacyHarpoonTabs)])
            /\ writeLog' = Bump(writeLog, "harpoonWindows")
            /\ UNCHANGED <<memVars, readLog, expected>>
       ELSE LET r == AfterInitialize(
                       finishInitialize(Mem, c, c.harpoonWindows, c.legacyHarpoonTabs), c)
            IN /\ Commit(r.m)
               /\ Advance(i, r.call)
               /\ expected' = ExpectedAfter(ExpectedLoaded(c.harpoonWindows), r.call)
               /\ writeLog' = Bump(writeLog, r.wrote)
               /\ UNCHANGED readLog
    /\ UNCHANGED <<peerVars, listenerVars, storeVars, now, issued>>

\* Variant of InitReadFail for an initialize() that assigns each slice as
\* soon as it is read: the tab history read so far stays in memory.
InitReadFail_KeepsLoaded(i) ==
    /\ i \in 1..Len(calls)
    /\ calls[i].pc \in ReadPcs
    /\ Advance(i, [calls[i] EXCEPT !.pc = "rejected", !.err = "storage"])
    /\ tabHistoryState' = calls[i].tabHistory
    /\ UNCHANGED <<isInitialized, harpoonTabsState, harpoonWindowsState, windowStatesState,
                   systemHealthState, heap>>
    /\ UNCHANGED <<peerVars, listenerVars, storeVars, now, readLog, writeLog, issued, expected>>

\* A storage.read awaited by initialize() rejects (chrome.runtime.lastError).
InitReadFail(i) ==
    /\ i \in 1..Len(calls)
    /\ calls[i].pc \in ReadPcs
    /\ Advance(i, [calls[i] EXCEPT !.pc = "rejected", !.err = "storage"])
    /\ UNCHANGED <<peerVars, memVars, listenerVars, storeVars, now, readLog, writeLog, issued, expected>>

\* A migration write of initialize() resolves.
InitWriteOk(i) ==
    /\ i \in 1..Len(calls)
    /\ calls[i].pc \in InitWritePcs
    /\ LET c == calls[i] IN
       IF c.pc = "writeHarpoonWindows"
       THEN /\ store' = [store EXCEPT !.harpoonWindows = c.migratedHarpoonWindows]
            /\ present' = present \cup {"harpoonWindows"}
            /\ Advance(i, [c EXCEPT !.pc = "writeHarpoonHistory"])
            /\ writeLog' = Bump(writeLog, "harpoonHistory")
            /\ UNCHANGED <<memVars, expected>>
       ELSE LET r == AfterInitialize(
                       finishInitialize(Mem, c, c.migratedHarpoonWindows, <<>>), c)
            IN /\ store' = [store EXCEPT !.harpoonHistory = <<>>]
               /\ present' = present \cup {"harpoonHistory"}
               /\ Commit(r.m)
               /\ Advance(i, r.call)
               /\ expected' = ExpectedAfter(ExpectedLoaded(c.migratedHarpoonWindows), r.call)
               /\ writeLog' = Bump(writeLog, r.wrote)
    /\ UNCHANGED <<peerVars, listenerVars, now, readLog, issued>>

\* A migration write of initialize() rejects.
InitWriteFail(i) ==
    /\ i \in 1..Len(calls)
    /\ calls[i].pc \in InitWritePcs
    /\ Advance(i, [calls[i] EXCEPT !.pc = "rejected", !.err = "storage"])
    /\ UNCHANGED <<peerVars, memVars, listenerVars, storeVars, now, readLog, writeLog, issued, expected>>

(* ---------------------------- update methods --------------------------- *)
\* An update method is called: `if (!this.isInitialized) await
\* this.initialize()`, else straight into its synchronous phase.
CallUpdate(fn, op) ==
    /\ IF ~isInitialized
       THEN /\ Enter([NewCall(fn, op) EXCEPT !.pc = "readTabHistory", !.ranInit = TRUE])
            /\ readLog' = Bump(readLog, "tabHistory")
            /\ UNCHANGED <<memVars, writeLog, expected>>
       ELSE LET r == SyncPhase(Mem, NewCall(fn, op), now)
            IN /\ Commit(r.m)
               /\ Enter(r.call)
               /\ expected' = ExpectedAfter(expected, r.call)
               /\ writeLog' = Bump(writeLog, r.wrote)
               /\ UNCHANGED readLog
    /\ UNCHANGED <<peerVars, listenerVars, storeVars, now>>

UpdateTabHistory(op) == CallUpdate("updateTabHistory", op)
UpdateHarpoonTabs(op) == CallUpdate("updateHarpoonTabs", op)
UpdateWindowState(op) == CallUpdate("updateWindowState", op)
UpdateSystemHealth(op) == CallUpdate("updateSystemHealth", op)

\* The code of each update method after `await storage.write(...)` has
\* resolved: ls is the slice's listener Set.  Yields the instance fields
\* and the finished activation.
Finished(c, n) ==
    [c EXCEPT !.pc = IF n.escaped THEN "rejected" ELSE "resolved",
              !.err = IF n.escaped THEN "listener" ELSE "",
              !.notified = n.invoked]

\* updateTabHistory, lines 164-167
updateTabHistoryResume(m, c, ls) ==
    [m |-> m,
     call |-> [Finished(c, notifyTabHistoryListeners(ls)) EXCEPT
                  !.notifyNewTabs = m.tabHistoryState,
                  !.notifyPrevTabs = c.prevTabs]]

\* updateHarpoonTabs, lines 230-234
updateHarpoonTabsResume(m, c, ls) ==
    [m |-> m,
     call |-> [Finished(c, notifyHarpoonTabsListeners(ls)) EXCEPT
                  !.notifyNewTabs = Flat(m.harpoonWindowsState),
                  !.notifyPrevTabs = c.prevTabs]]

\* updateWindowState, lines 280-286
updateWindowStateResume(m, c, ls) ==
    [m |-> [m EXCEPT !.windowStatesState = c.newW],
     call |-> [Finished(c, notifyWindowStatesListeners(ls)) EXCEPT
                  !.notifyNewW = Deref(c.newW, m.heap),
                  !.notifyPrevW = Deref(c.prevW, m.heap)]]

\* updateSystemHealth, lines 325-331
updateSystemHealthResume(m, c, ls) ==
    [m |-> [m EXCEPT !.systemHealthState = c.newH],
     call |-> Finished(c, notifySystemHealthListeners(ls))]

\* Variant of updateTabHistoryCatch that restores the previous state.
updateTabHistoryCatch_Rollback(m, c) ==
    [m |-> [m EXCEPT !.tabHistoryState = c.prevTabs],
     call |-> [c EXCEPT !.pc = "rejected", !.err = "storage"]]

\* The catch blocks of the update methods when storage.write rejected: log
\* and rethrow; no field is restored.
updateTabHistoryCatch(m, c) ==
    [m |-> m, call |-> [c EXCEPT !.pc = "rejected", !.err = "storage"]]
updateHarpoonTabsCatch(m, c) ==
    [m |-> m, call |-> [c EXCEPT !.pc = "rejected", !.err = "storage"]]
updateWindowStateCatch(m, c) ==
    [m |-> m, call |-> [c EXCEPT !.pc = "rejected", !.err = "storage"]]
updateSystemHealthCatch(m, c) ==
    [m |-> m, call |-> [c EXCEPT !.pc = "rejected", !.err = "storage"]]

Resume(m, c) ==
    CASE c.fn = "updateTabHistory" -> updateTabHistoryResume(m, c, tabHistoryListeners)
      [] c.fn = "updateHarpoonTabs" -> updateHarpoonTabsResume(m, c, harpoonTabsListeners)
      [] c.fn = "updateWindowState" -> updateWindowStateResume(m, c, windowStatesListeners)
      [] OTHER -> updateSystemHealthResume(m, c, systemHealthListeners)

Catch(m, c) ==
    CASE c.fn = "updateTabHistory" -> updateTabHistoryCatch(m, c)
      [] c.fn = "updateHarpoonTabs" -> updateHarpoonTabsCatch(m, c)
      [] c.fn = "updateWindowState" -> updateWindowStateCatch(m, c)
      [] OTHER -> updateSystemHealthCatch(m, c)

\* chrome.storage.local.set of the value an update method handed over.
Stored(c) ==
    CASE c.fn = "updateTabHistory" -> [store EXCEPT !.tabHistory = c.newTabs]
      [] c.fn = "updateHarpoonTabs" -> [store EXCEPT !.harpoonWindows = c.newWindows]
      [] c.fn = "updateWindowState" -> [store EXCEPT !.windowStates = c.writeW]
      [] OTHER -> [store EXCEPT !.systemHealth = c.newH]
WriteKey(c) ==
    CASE c.fn = "updateTabHistory" -> "tabHistory"
      [] c.fn = "updateHarpoonTabs" -> "harpoonWindows"
      [] c.fn = "updateWindowState" -> "windowStates"
      [] OTHER -> "systemHealth"

\* The storage.write awaited by an update method resolves, and the method
\* runs to its end.  Pending writes complete in any order.
StorageWriteOk(i) ==
    /\ i \in 1..Len(calls)
    /\ calls[i].pc = "awaitWrite"
    /\ store' = Stored(calls[i])
    /\ present' = present \cup {WriteKey(calls[i])}
    /\ LET r == Resume(Mem, calls[i])
       IN /\ Commit(r.m)
          /\ Advance(i, r.call)
    /\ UNCHANGED <<peerVars, listenerVars, now, readLog, writeLog, issued, expected>>

\* The storage.write awaited by an update method rejects.
StorageWriteFail(i) ==
    /\ i \in 1..Len(calls)
    /\ calls[i].pc = "awaitWrite"
    /\ LET r == Catch(Mem, calls[i])
       IN /\ Commit(r.m)
          /\ Advance(i, r.call)
    /\ UNCHANGED <<peerVars, listenerVars, storeVars, now, readLog, writeLog, issued, expected>>

(* ---------------------------- subscriptions ---------------------------- *)
\* subscribeToTabHistory / subscribeToHarpoonTabs / subscribeToWindowStates /
\* subscribeToSystemHealth, and the unsubscribe closure each returns.
SubscribeToTabHistory(l) ==
    /\ tabHistoryListeners' = SetAdd(tabHistoryListeners, l)
    /\ UNCHANGED <<peerVars, memVars, harpoonTabsListeners, windowStatesListeners,
                   systemHealthListeners, storeVars, callVars, now, readLog, writeLog>>
UnsubscribeFromTabHistory(l) ==
    /\ tabHistoryListeners' = SetDelete(tabHistoryListeners, l)
    /\ UNCHANGED <<peerVars, memVars, harpoonTabsListeners, windowStatesListeners,
                   systemHealthListeners, storeVars, callVars, now, readLog, writeLog>>
SubscribeToHarpoonTabs(l) ==
    /\ harpoonTabsListeners' = SetAdd(harpoonTabsListeners, l)
    /\ UNCHANGED <<peerVars, memVars, tabHistoryListeners, windowStatesListeners,
                   systemHealthListeners, storeVars, callVars, now, readLog, writeLog>>
UnsubscribeFromHarpoonTabs(l) ==
    /\ harpoonTabsListeners' = SetDelete(harpoonTabsListeners, l)
    /\ UNCHANGED <<peerVars, memVars, tabHistoryListeners, windowStatesListeners,
                   systemHealthListeners, storeVars, callVars, now, readLog, writeLog>>
SubscribeToWindowStates(l) ==
    /\ windowStatesListeners' = SetAdd(windowStatesListeners, l)
    /\ UNCHANGED <<peerVars, memVars, tabHistoryListeners, harpoonTabsListeners,
                   systemHealthListeners, storeVars, callVars, now, readLog, writeLog>>
UnsubscribeFromWindowStates(l) ==
    /\ windowStatesListeners' = SetDelete(windowStatesListeners, l)
    /\ UNCHANGED <<peerVars, memVars, tabHistoryListeners, harpoonTabsListeners,
                   systemHealthListeners, storeVars, callVars, now, readLog, writeLog>>
SubscribeToSystemHealth(l) ==
    /\ systemHealthListeners' = SetAdd(systemHealthListeners, l)
    /\ UNCHANGED <<peerVars, memVars, tabHistoryListeners, harpoonTabsListeners,
                   windowStatesListeners, storeVars, callVars, now, readLog, writeLog>>
UnsubscribeFromSystemHealth(l) ==
    /\ systemHealthListeners' = SetDelete(systemHealthListeners, l)
    /\ UNCHANGED <<peerVars, memVars, tabHistoryListeners, harpoonTabsListeners,
                   windowStatesListeners, storeVars, callVars, now, readLog, writeLog>>

(* ------------------------------- clock --------------------------------- *)
\* Time passes between two tasks of the event loop (Date.now()).
Tick ==
    /\ now < MaxClock
    /\ now' = now + 1
    /\ UNCHANGED <<peerVars, memVars, listenerVars, storeVars, callVars, readLog, writeLog>>

(* ------------------------------ inputs --------------------------------- *)
\* Sequences a caller may hand to 'reorder': up to two tabs out of two tabs
\* of window 1 and one of window 2 (among them sequences that repeat a tab
\* and sequences that mix windows), and one with an invalid tab.
ReorderPool == {Tab(1, 1, "u", "t"), Tab(2, 1, "u", "t"), Tab(1, 2, "u", "t")}
ReorderInputs ==
    {<<>>, <<Tab(1, 1, "u", "")>>}
    \cup {<<t>> : t \in ReorderPool} \cup {<<t, u>> : t \in ReorderPool, u \in ReorderPool}

TabHistoryOps ==
    {Op("add", 0, TRUE, t, 0, FALSE, <<>>) : t \in BaseTabs \cup InvalidTabs}
    \cup {Op("update", 0, TRUE, t, 0, FALSE, <<>>) : t \in RetitledTabs \cup InvalidTabs}
    \cup {Op(ty, 0, FALSE, NoTab, 0, FALSE, <<>>) : ty \in {"add", "update", "reorder"}}
    \cup {Op("remove", 0, FALSE, NoTab, i, FALSE, <<>>) : i \in 0..MaxTabId}
    \cup {Op("reorder", 0, FALSE, NoTab, 0, TRUE, ts) : ts \in ReorderInputs}

\* Harpoon operations name a window; an invalid tab comes with its own
\* window id (0 is the falsy one), so that it reaches the validator.
HarpoonOps ==
    {Op("add", w, TRUE, t, 0, FALSE, <<>>) : w \in WindowIds, t \in BaseTabs}
    \cup {Op("update", w, TRUE, t, 0, FALSE, <<>>) : w \in WindowIds, t \in RetitledTabs}
    \cup {Op(ty, t.windowId, TRUE, t, 0, FALSE, <<>>) : ty \in {"add", "update"}, t \in InvalidTabs}
    \cup {Op(ty, w, FALSE, NoTab, 0, FALSE, <<>>) :
              ty \in {"add", "update", "reorder", "clear"}, w \in WindowIds}
    \cup {Op("remove", w, FALSE, NoTab, i, FALSE, <<>>) : w \in WindowIds, i \in 0..MaxTabId}
    \cup {Op("reorder", w, FALSE, NoTab, 0, TRUE, ts) : w \in WindowIds, ts \in ReorderInputs}

(* --------------------------- HarpoonManager ---------------------------- *)
\* part_004 line 28: private maxHarpoonTabs = 20
DefaultMaxHarpoonTabs == 20

\* The listener the HarpoonManager constructor subscribes
\* (setupStateListeners): (newTabs, previousTabs) =>
\* this.handleHarpoonTabsChange(newTabs, previousTabs).
HarpoonManagerListener == 0

\* harpoonTabs.sort((a, b) => b.id - a.id): descending ids, stable.
InsertById(sorted, t) ==
    LET k == Cardinality({j \in 1..Len(sorted) : sorted[j].id >= t.id})
    IN SubSeq(sorted, 1, k) \o <<t>> \o SubSeq(sorted, k + 1, Len(sorted))
RECURSIVE SortByIdDescending(_)
SortByIdDescending(s) ==
    IF s = <<>> THEN <<>>
    ELSE InsertById(SortByIdDescending(SubSeq(s, 1, Len(s) - 1)), s[Len(s)])

\* sortedTabs.slice(0, this.maxHarpoonTabs)
Slice(s, n) == SubSeq(s, 1, IF n < Len(s) THEN n ELSE Len(s))

\* What chrome.tabs.get(tabId) can answer: the tab in one of the windows,
\* a tab without url (no permission for it), or NoTab for lastError.
ChromeTabs(tabId) ==
    {Tab(tabId, w, "u", "t") : w \in WindowIds} \cup {Tab(tabId, 1, "", "t"), NoTab}

\* handleHarpoonTabsChange, run by notifyHarpoonTabsListeners when the
\* manager's listener is subscribed: the activation of
\* updateSystemHealth({ lastHealthCheck: Date.now() }) it starts, at its
\* storage.write (a rejection is caught and logged by the handler).
handleHarpoonTabsChange(m, ls, clock) ==
    IF \E k \in 1..Len(ls) : ls[k] = HarpoonManagerListener
    THEN <<updateSystemHealthSync(m, NewCall("updateSystemHealth",
                HOp(HPartial({"lastHealthCheck"}, 0, clock, 0)))).call>>
    ELSE <<>>

\* enforceMaxHarpoonTabs(windowId) up to its `await
\* stateManager.updateHarpoonTabs(...)`, or to its end (pc "enforced") when
\* the partition is within the limit or the update threw synchronously
\* (caught and logged).
enforceMaxHarpoonTabs(m, c, windowId, max) ==
    LET harpoonTabs == IF windowId \in DOMAIN m.harpoonWindowsState
                       THEN m.harpoonWindowsState[windowId] ELSE <<>>
        sortedTabs == SortByIdDescending(harpoonTabs)
        tabsToKeep == Slice(sortedTabs, max)
        r == updateHarpoonTabsSync(m, [c EXCEPT !.op = Op("reorder", windowId, FALSE, NoTab,
                                                             0, TRUE, tabsToKeep)])
    IN IF Len(harpoonTabs) > max /\ r.call.pc # "rejected"
       THEN [m |-> r.m, call |-> [r.call EXCEPT !.pc = "awaitEnforceWrite"], wrote |-> r.wrote]
       ELSE [m |-> m, call |-> [c EXCEPT !.pc = "enforced"], wrote |-> ""]

\* enforceMaxHarpoonTabsForAllWindows: the for loop over the window ids
\* collected at the call, up to the first enforcement that has to write.
RECURSIVE enforceMaxHarpoonTabsForAllWindows(_, _, _)
enforceMaxHarpoonTabsForAllWindows(m, c, max) ==
    IF c.windowIds = {} THEN [m |-> m, call |-> [c EXCEPT !.pc = "resolved"], wrote |-> ""]
    ELSE LET windowId == CHOOSE w \in c.windowIds : \A v \in c.windowIds : w <= v
             e == enforceMaxHarpoonTabs(m, [c EXCEPT !.windowIds = @ \ {windowId}],
                                        windowId, max)
         IN IF e.call.pc = "awaitEnforceWrite" THEN e
            ELSE enforceMaxHarpoonTabsForAllWindows(e.m, e.call, max)

\* The caller's code after `await this.enforceMaxHarpoonTabs(windowId)`:
\* addTabToHarpoon starts notifyHarpoonChange() without awaiting it and
\* returns; the loop over the windows goes on.
AfterEnforce(m, c, max) ==
    IF c.fn = "addTabToHarpoon"
    THEN [m |-> m, call |-> [c EXCEPT !.pc = "resolved"], wrote |-> ""]
    ELSE enforceMaxHarpoonTabsForAllWindows(m, c, max)

\* The activation at position i has become c, and the activations in
\* started have begun.
AdvanceAnd(i, c, started) ==
    /\ calls' = (IF Settled(c) THEN RemoveAt(calls, i) ELSE [calls EXCEPT ![i] = c]) \o started
    /\ last' = IF Settled(c) THEN Outcome(c) ELSE last

\* setMaxHarpoonTabs(max)
SetMaxHarpoonTabs(max) ==
    /\ issued' = issued + 1
    /\ IF max > 0
       THEN LET c == [NewCall("enforceMaxHarpoonTabsForAllWindows", NoOp) EXCEPT
                         !.windowIds = {getHarpoonTabs[k].windowId :
                                           k \in 1..Len(getHarpoonTabs)}]
                e == enforceMaxHarpoonTabsForAllWindows(Mem, c, max)
            IN /\ maxHarpoonTabs' = max
               /\ Commit(e.m)
               /\ IF Settled(e.call) THEN UNCHANGED <<calls, last>>
                  ELSE calls' = Append(calls, e.call) /\ UNCHANGED last
               /\ expected' = ExpectedIssued(expected, e.call, e.wrote)
               /\ writeLog' = Bump(writeLog, e.wrote)
       ELSE UNCHANGED <<maxHarpoonTabs, memVars, calls, last, expected, writeLog>>
    /\ UNCHANGED <<brokerVars, recoveryVars, listenerVars, storeVars, now, readLog>>

\* addTabToHarpoon(tabId) is called: up to `await this.getChromeTab(tabId)`.
AddTabToHarpoon(tabId) ==
    /\ Enter([NewCall("addTabToHarpoon", NoOp) EXCEPT !.pc = "getChromeTab", !.tabId = tabId])
    /\ UNCHANGED <<peerVars, memVars, listenerVars, storeVars, now, readLog, writeLog, expected>>

\* chrome.tabs.get answers: `Tab not found` for null, else createTelescopeTab
\* up to `await screenshotManager.getScreenshotForUrl(tab.url)`.
GetChromeTabAnswers(i, chromeTab) ==
    /\ i \in 1..Len(calls)
    /\ calls[i].fn = "addTabToHarpoon" /\ calls[i].pc = "getChromeTab"
    /\ chromeTab \in ChromeTabs(calls[i].tabId)
    /\ Advance(i, IF chromeTab = NoTab
                  THEN [calls[i] EXCEPT !.pc = "rejected", !.err = "Tab not found"]
                  ELSE IF TabIsFalsy(chromeTab)
                  THEN [calls[i] EXCEPT !.pc = "rejected", !.err = "Invalid Chrome tab data"]
                  ELSE [calls[i] EXCEPT !.pc = "getScreenshotForUrl", !.op.tab = chromeTab])
    /\ UNCHANGED <<peerVars, memVars, listenerVars, storeVars, now, readLog, writeLog,
                   issued, expected>>

\* The screenshot lookup settles (a rejection only empties screenshotUrl):
\* addTabToHarpoon from `const windowId` to the storage.write inside
\* updateHarpoonTabs.
GetScreenshotSettles(i) ==
    /\ i \in 1..Len(calls)
    /\ calls[i].fn = "addTabToHarpoon" /\ calls[i].pc = "getScreenshotForUrl"
    /\ isInitialized
    /\ LET telescopeTab == calls[i].op.tab
           windowId == telescopeTab.windowId
           currentHarpoonTabs == getHarpoonTabsForWindow(windowId)
           existingIndex == \E k \in 1..Len(currentHarpoonTabs) :
                               currentHarpoonTabs[k].id = calls[i].tabId
           operation == Op(IF existingIndex THEN "update" ELSE "add", windowId, TRUE,
                           telescopeTab, 0, FALSE, <<>>)
           r == updateHarpoonTabsSync(Mem, [calls[i] EXCEPT !.op = operation])
       IN /\ Commit(r.m)
          /\ Advance(i, IF r.call.pc = "rejected" THEN r.call
                        ELSE [r.call EXCEPT !.pc = "awaitAddWrite"])
          /\ expected' = ExpectedIssued(expected, r.call, r.wrote)
          /\ writeLog' = Bump(writeLog, r.wrote)
    /\ UNCHANGED <<peerVars, listenerVars, storeVars, now, readLog, issued>>

\* The write of the add resolves: updateHarpoonTabs notifies and returns,
\* addTabToHarpoon goes on into enforceMaxHarpoonTabs(windowId).
AddWriteOk(i) ==
    /\ i \in 1..Len(calls)
    /\ calls[i].pc = "awaitAddWrite"
    /\ store' = [store EXCEPT !.harpoonWindows = calls[i].newWindows]
    /\ present' = present \cup {"harpoonWindows"}
    /\ LET r == updateHarpoonTabsResume(Mem, calls[i], harpoonTabsListeners)
           h == handleHarpoonTabsChange(r.m, harpoonTabsListeners, now)
           e == enforceMaxHarpoonTabs(r.m, r.call, calls[i].op.windowId, maxHarpoonTabs)
           a == IF e.call.pc = "enforced" THEN AfterEnforce(e.m, e.call, maxHarpoonTabs) ELSE e
       IN /\ Commit(a.m)
          /\ AdvanceAnd(i, a.call, h)
          /\ expected' = ExpectedIssued(expected, a.call, a.wrote)
          /\ writeLog' = Bump(Bump(writeLog, IF h = <<>> THEN "" ELSE "systemHealth"), a.wrote)
    /\ UNCHANGED <<peerVars, listenerVars, now, readLog, issued>>

\* The write of the add rejects: updateHarpoonTabs rethrows and so does
\* addTabToHarpoon; enforceMaxHarpoonTabs is not reached.
AddWriteFail(i) ==
    /\ i \in 1..Len(calls)
    /\ calls[i].pc = "awaitAddWrite"
    /\ LET r == updateHarpoonTabsCatch(Mem, calls[i])
       IN /\ Commit(r.m)
          /\ Advance(i, r.call)
    /\ UNCHANGED <<peerVars, listenerVars, storeVars, now, readLog, writeLog, issued, expected>>

\* The write of an enforcement's reorder resolves: updateHarpoonTabs
\* notifies and returns, and the caller of enforceMaxHarpoonTabs goes on.
EnforceWriteOk(i) ==
    /\ i \in 1..Len(calls)
    /\ calls[i].pc = "awaitEnforceWrite"
    /\ store' = [store EXCEPT !.harpoonWindows = calls[i].newWindows]
    /\ present' = present \cup {"harpoonWindows"}
    /\ LET r == updateHarpoonTabsResume(Mem, calls[i], harpoonTabsListeners)
           h == handleHarpoonTabsChange(r.m, harpoonTabsListeners, now)
           a == AfterEnforce(r.m, r.call, maxHarpoonTabs)
       IN /\ Commit(a.m)
          /\ AdvanceAnd(i, a.call, h)
          /\ expected' = ExpectedIssued(expected, a.call, a.wrote)
          /\ writeLog' = Bump(Bump(writeLog, IF h = <<>> THEN "" ELSE "systemHealth"), a.wrote)
    /\ UNCHANGED <<peerVars, listenerVars, now, readLog, issued>>

\* The write of an enforcement's reorder rejects: enforceMaxHarpoonTabs
\* catches and logs, and its caller goes on.
EnforceWriteFail(i) ==
    /\ i \in 1..Len(calls)
    /\ calls[i].pc = "awaitEnforceWrite"
    /\ LET a == AfterEnforce(Mem, calls[i], maxHarpoonTabs)
       IN /\ Commit(a.m)
          /\ AdvanceAnd(i, a.call, <<>>)
          /\ expected' = ExpectedIssued(expected, a.call, a.wrote)
          /\ writeLog' = Bump(writeLog, a.wrote)
    /\ UNCHANGED <<peerVars, listenerVars, storeVars, now, readLog, issued>>

(* ---------------------------- MessageBroker ---------------------------- *)
\* part_007 line 292: maxActiveTransactions = 100; line 587: the cutoff of
\* cleanupOldTransactions, 10 * 60 * 1000 ms; lines 638 and 324: the retry
\* defaults of createMessage and of broadcastToAllTabs.
MaxActiveTransactions == 100
TenMinutes == 600000
DefaultMaxRetries == 3
BroadcastMaxRetries == 1

\* chrome.tabs.Tab as the broker sees it: id (0: undefined), url and
\* windowId.  A url is modelled by the set of the substrings the code asks
\* about that occur in it; NoUrl is an undefined url.
NoUrl == "undefined"
Urls == {"https://a", "chrome://newtab", "about:blank", "https://a/?next=about:x", NoUrl}
Includes(url, needle) ==
    CASE url = "chrome://newtab" -> needle = "chrome://"
      [] url = "about:blank" -> needle = "about:"
      [] url = "https://a/?next=about:x" -> needle = "about:"
      [] OTHER -> FALSE
ChromeTab(i, u, w) == [id |-> i, url |-> u, windowId |-> w]

\* part_008 canReceiveMessages: !!(tab.id && !tab.url?.includes('chrome://')
\* && !tab.url?.includes('about:')); on an undefined url `?.` yields
\* undefined, and its negation is true.
canReceiveMessages(tab) ==
    /\ tab.id # 0
    /\ (tab.url = NoUrl \/ ~Includes(tab.url, "chrome://"))
    /\ (tab.url = NoUrl \/ ~Includes(tab.url, "about:"))

\* options of sendMessage / broadcast / addToTransaction: priority "" is an
\* omitted priority, maxRetries Omitted an omitted maxRetries; `||` takes
\* its right-hand side for an omitted (undefined) value and for 0 alike.
Omitted == -1
Options(p, r) == [priority |-> p, maxRetries |-> r]
NoMessage == [id |-> 0, type |-> "", priority |-> "", maxRetries |-> 0]

\* createMessage(type, payload, options) when messageCounter is counter.
createMessage(counter, type, options) ==
    [id |-> counter + 1, type |-> type,
     priority |-> IF options.priority = "" THEN "medium" ELSE options.priority,
     maxRetries |-> IF options.maxRetries \in {Omitted, 0} THEN DefaultMaxRetries
                    ELSE options.maxRetries]

\* broadcastToAllTabs: broadcastOptions
broadcastOptions(options) ==
    Options(IF options.priority = "" THEN "medium" ELSE options.priority,
            IF options.maxRetries \in {Omitted, 0} THEN BroadcastMaxRetries
            ELSE options.maxRetries)

\* the options commitTransaction passes on from a buffered message
OptionsOf(message) == Options(message.priority, message.maxRetries)

\* MessageDeliveryResult
Result(ok, e) == [success |-> ok, error |-> e]
NoResult == Result(FALSE, "")

\* QueuedMessage: tabId / windowId 0 stand for undefined.
Queued(message, tabId, windowId, broadcast) ==
    [message |-> message, tabId |-> tabId, windowId |-> windowId, broadcast |-> broadcast]

\* One sendMessageWithRetry in progress: the loop variable attempt, the
\* position (waiting: not yet started, single: in sendSingleMessage, delay: in
\* the backoff delay, done) and lastError / the result returned.
NewSend(tabId) ==
    [tabId |-> tabId, attempt |-> 0, pc |-> "waiting", lastError |-> "", result |-> NoResult,
     outcome |-> "",               \* how its latest attempt ended
     received |-> 0,               \* how often the endpoint has received the message
     delay |-> 0]                  \* the ms of its latest this.delay(delay)

\* One activation of an async method of the broker.
NewJob(fn) ==
    [fn |-> fn, pc |-> "start", err |-> "",
     thrown |-> "",                \* withTransaction: the error its catch block caught
     tx |-> 0, idx |-> 0,          \* commitTransaction: tx and the loop position
     kind |-> "",                  \* what is being sent: tab, all, window
     windowId |-> 0,
     message |-> NoMessage,        \* the Message created for the current send
     queried |-> <<>>,             \* what chrome.tabs.query answered
     sends |-> <<>>,               \* the sendMessageWithRetry activations
     results |-> <<>>,             \* results collected so far / returned
     queuedMessage |-> Queued(NoMessage, 0, 0, FALSE),  \* processQueue: the one shifted
     options |-> Options("", Omitted),  \* sendMessage: the options the caller passed
     trace |-> {},                 \* the chrome.tabs.sendMessage calls made: to whom, what
     transportCalls |-> 0]         \* ... and how many

\* The fields of the MessageBroker instance as one record.
Br == [messageCounter |-> messageCounter, transactionCounter |-> transactionCounter,
       txs |-> txs, activeTransactions |-> activeTransactions,
       messageQueue |-> messageQueue, processingQueue |-> processingQueue]

CommitBr(br) ==
    /\ messageCounter' = br.messageCounter
    /\ transactionCounter' = br.transactionCounter
    /\ txs' = br.txs
    /\ activeTransactions' = br.activeTransactions
    /\ messageQueue' = br.messageQueue
    /\ processingQueue' = br.processingQueue

\* The outcomes of one sendSingleMessage: the endpoint responds, the
\* callback reports chrome.runtime.lastError, the timer fires first, or
\* chrome.tabs.sendMessage throws inside the Promise executor (the promise
\* rejects).
AttemptOutcomes == {"response", "lastError", "timeout", "throws"}

\* The timer of sendSingleMessage is the broker's own: the endpoint may have
\* received the message and answer only after the timer has fired. The
\* promise is resolved with the timeout; the late callback's resolve has no
\* effect.
LateResponse == "lateResponse"
EndpointOutcomes == AttemptOutcomes \cup {LateResponse}
ReceivedBy(outcome) == outcome \in {"response", LateResponse}

ErrorOf(outcome) ==
    CASE outcome = "lastError" -> "Could not establish connection"
      [] outcome \in {"timeout", LateResponse} -> "Timeout"
      [] OTHER -> "transport threw"

\* sendSingleMessage is entered for the send at position k of job: the
\* call of chrome.tabs.sendMessage is recorded.
StartAttempt(job, k) ==
    [job EXCEPT !.sends[k].pc = "single", !.transportCalls = @ + 1,
                !.trace = @ \cup {[tabId |-> job.sends[k].tabId, messageId |-> job.message.id,
                                   type |-> job.message.type, idx |-> job.idx]}]

RECURSIVE StartAll(_, _)
StartAll(job, k) == IF k > Len(job.sends) THEN job ELSE StartAll(StartAttempt(job, k), k + 1)

\* Variant of sendMessageWithRetry whose catch block returns the failure
\* at once instead of going on with the loop.
sendMessageWithRetry_GivesUpOnThrow(s, message, outcome) ==
    IF outcome = "response" THEN [s EXCEPT !.pc = "done", !.result = Result(TRUE, "")]
    ELSE IF s.attempt < message.maxRetries /\ outcome # "throws"
         THEN [s EXCEPT !.pc = "delay", !.lastError = ErrorOf(outcome),
                        !.delay = (2 ^ s.attempt) * 100]
         ELSE [s EXCEPT !.pc = "done", !.lastError = ErrorOf(outcome),
                        !.result = Result(FALSE, ErrorOf(outcome))]

\* sendMessageWithRetry for the send s after its attempt ended with
\* outcome: return the result on success; else remember the error and go
\* into the delay, or leave the loop and return the failure.
sendMessageWithRetry(s, message, outcome) ==
    IF outcome = "response" THEN [s EXCEPT !.pc = "done", !.result = Result(TRUE, "")]
    ELSE IF s.attempt < message.maxRetries
         THEN [s EXCEPT !.pc = "delay", !.lastError = ErrorOf(outcome),
                        !.delay = (2 ^ s.attempt) * 100]
         ELSE [s EXCEPT !.pc = "done", !.lastError = ErrorOf(outcome),
                        !.result = Result(FALSE, ErrorOf(outcome))]

\* Variant of AllDone in which the first failed send ends the whole batch.
AllDone_StopsOnFailure(job) ==
    \/ \A k \in 1..Len(job.sends) : job.sends[k].pc = "done"
    \/ \E k \in 1..Len(job.sends) : job.sends[k].pc = "done" /\ ~job.sends[k].result.success

\* Promise.allSettled over the sends (broadcastToAllTabs), the end of the
\* for loop (broadcastToWindow), the one send of sendMessage.
AllDone(job) ==
    \A k \in 1..Len(job.sends) : job.sends[k].pc = "done"
ResultsOf(job) == [k \in 1..Len(job.sends) |-> job.sends[k].result]

\* sendMessage(tabId, type, payload, options) up to the first
\* chrome.tabs.sendMessage: createMessage, then sendMessageWithRetry enters
\* sendSingleMessage.
startSendMessage(br, job, tabId, type, options) ==
    [br |-> [br EXCEPT !.messageCounter = @ + 1],
     job |-> StartAttempt([job EXCEPT !.pc = "sending", !.kind = "tab",
                                      !.message = createMessage(br.messageCounter, type, options),
                                      !.sends = <<NewSend(tabId)>>], 1)]

\* broadcastToAllTabs(type, payload, options) up to `await
\* this.getEligibleTabs()`.
startBroadcastToAllTabs(br, job, type, options) ==
    [br |-> [br EXCEPT !.messageCounter = @ + 1],
     job |-> [job EXCEPT !.pc = "query", !.kind = "all", !.sends = <<>>,
                         !.message = createMessage(br.messageCounter, type,
                                                   broadcastOptions(options))]]

\* broadcastToWindow(windowId, type, payload, options) up to `await
\* this.getTabsInWindow(windowId)`.
startBroadcastToWindow(br, job, windowId, type, options) ==
    [br |-> [br EXCEPT !.messageCounter = @ + 1],
     job |-> [job EXCEPT !.pc = "query", !.kind = "window", !.windowId = windowId,
                         !.sends = <<>>,
                         !.message = createMessage(br.messageCounter, type, options)]]

\* commitTransaction: the for loop over tx.messages from position job.idx
\* (the array is read as it is now) up to the next await, or past the loop:
\* tx.committed = true, activeTransactions.delete(tx.id), return results.
RECURSIVE commitLoop(_, _)
commitLoop(br, job) ==
    LET tx == br.txs[job.tx] IN
    IF job.idx > Len(tx.messages)
    THEN [br |-> [br EXCEPT !.txs[job.tx].committed = TRUE,
                            !.activeTransactions = SelectSeq(@, LAMBDA h : h # job.tx)],
          job |-> [job EXCEPT !.pc = "resolved"]]
    ELSE LET queuedMessage == tx.messages[job.idx] IN
         IF queuedMessage.broadcast
         THEN startBroadcastToAllTabs(br, job, queuedMessage.message.type,
                                      OptionsOf(queuedMessage.message))
         ELSE IF queuedMessage.windowId # 0
         THEN startBroadcastToWindow(br, job, queuedMessage.windowId,
                                     queuedMessage.message.type,
                                     OptionsOf(queuedMessage.message))
         ELSE IF queuedMessage.tabId # 0
         THEN startSendMessage(br, job, queuedMessage.tabId, queuedMessage.message.type,
                               OptionsOf(queuedMessage.message))
         ELSE commitLoop(br, [job EXCEPT !.idx = @ + 1])

\* part_007 line 291: private maxQueueSize = 1000
MaxQueueSize == 1000

\* processQueue: priorityOrder = { high: 3, medium: 2, low: 1 }
priorityOrder(priority) ==
    CASE priority = "high" -> 3 [] priority = "medium" -> 2 [] OTHER -> 1

\* messageQueue.sort((a, b) => priorityOrder[b] - priorityOrder[a]):
\* Array.prototype.sort is stable, so equal priorities keep their order.
SortByPriority(queue) ==
    SelectSeq(queue, LAMBDA q : priorityOrder(q.message.priority) = 3)
    \o SelectSeq(queue, LAMBDA q : priorityOrder(q.message.priority) = 2)
    \o SelectSeq(queue, LAMBDA q : priorityOrder(q.message.priority) = 1)

\* processQueue: the while loop from `this.messageQueue.shift()` up to the
\* next await, or, the queue being empty, through the finally block.
RECURSIVE drainLoop(_, _)
drainLoop(br, job) ==
    IF br.messageQueue = <<>>
    THEN [br |-> [br EXCEPT !.processingQueue = FALSE],
          job |-> [job EXCEPT !.pc = "resolved"]]
    ELSE LET queuedMessage == Head(br.messageQueue)
             shifted == [br EXCEPT !.messageQueue = Tail(@)]
             taken == [job EXCEPT !.queuedMessage = queuedMessage, !.sends = <<>>]
         IN IF queuedMessage.broadcast
            THEN startBroadcastToAllTabs(shifted, taken, queuedMessage.message.type,
                                         OptionsOf(queuedMessage.message))
            ELSE IF queuedMessage.windowId # 0
            THEN startBroadcastToWindow(shifted, taken, queuedMessage.windowId,
                                        queuedMessage.message.type,
                                        OptionsOf(queuedMessage.message))
            ELSE IF queuedMessage.tabId # 0
            THEN startSendMessage(shifted, taken, queuedMessage.tabId,
                                  queuedMessage.message.type,
                                  OptionsOf(queuedMessage.message))
            ELSE drainLoop(shifted, taken)

\* processQueue() up to its first await.
processQueue(br, job) ==
    IF br.processingQueue THEN [br |-> br, job |-> [job EXCEPT !.pc = "resolved"]]
    ELSE drainLoop([br EXCEPT !.processingQueue = TRUE,
                              !.messageQueue = SortByPriority(@)], job)

\* Variant of afterSends in which commitTransaction leaves its loop at the
\* first failed delivery.
afterSends_StopsOnFailure(br, job) ==
    IF job.fn = "commitTransaction"
    THEN IF \E k \in 1..Len(job.sends) : ~job.sends[k].result.success
         THEN [br |-> [br EXCEPT !.txs[job.tx].committed = TRUE,
                                 !.activeTransactions = SelectSeq(@, LAMBDA h : h # job.tx)],
               job |-> [job EXCEPT !.pc = "resolved", !.results = @ \o ResultsOf(job),
                                   !.sends = <<>>]]
         ELSE commitLoop(br, [job EXCEPT !.results = @ \o ResultsOf(job), !.idx = @ + 1,
                                         !.sends = <<>>])
    ELSE [br |-> br, job |-> [job EXCEPT !.pc = "resolved", !.results = ResultsOf(job)]]

\* All sends of the current sendMessage / broadcast have returned: the
\* method returns their results to its caller, and commitTransaction
\* pushes them and goes on with the next buffered message.
afterSends(br, job) ==
    IF job.fn \in {"commitTransaction", "withTransaction"}
    THEN commitLoop(br, [job EXCEPT !.results = @ \o ResultsOf(job), !.idx = @ + 1,
                                    !.sends = <<>>])
    ELSE IF job.fn = "processQueue" THEN drainLoop(br, job)
    ELSE [br |-> br, job |-> [job EXCEPT !.pc = "resolved", !.results = ResultsOf(job)]]

NoLongerActive == "Transaction is no longer active"
FnError == "fn threw"
QueryError == "chrome.tabs.query threw"

\* withTransaction, the catch block: await this.rollbackTransaction(tx);
\* throw error.  rollbackTransaction throws when a flag of tx is set, and
\* that error leaves withTransaction instead.
withTransactionCatch(br, job, error) ==
    LET tx == br.txs[job.tx] IN
    IF tx.committed \/ tx.rolledBack
    THEN [br |-> br,
          job |-> [job EXCEPT !.pc = "rejected", !.err = NoLongerActive, !.thrown = error]]
    ELSE [br |-> [br EXCEPT !.txs[job.tx].rolledBack = TRUE,
                            !.activeTransactions = SelectSeq(@, LAMBDA h : h # job.tx)],
          job |-> [job EXCEPT !.pc = "rejected", !.err = error, !.thrown = error]]

\* withTransaction after await fn(tx): fn threw, or it resolved and
\* commitTransaction(tx) runs up to its first await.
afterFn(br, job, outcome) ==
    LET tx == br.txs[job.tx] IN
    IF outcome = "throws" THEN withTransactionCatch(br, job, FnError)
    ELSE IF tx.committed \/ tx.rolledBack THEN withTransactionCatch(br, job, NoLongerActive)
    ELSE commitLoop(br, [job EXCEPT !.idx = 1])

\* The job at position j has become job.
AdvanceJob(j, job) ==
    IF job.pc \in {"resolved", "rejected"}
    THEN jobs' = RemoveAt(jobs, j) /\ lastJob' = job
    ELSE jobs' = [jobs EXCEPT ![j] = job] /\ UNCHANGED lastJob

\* A broker method is called and runs to its first suspension or to its end.
EnterJob(job) ==
    /\ issued' = issued + 1
    /\ IF job.pc \in {"resolved", "rejected"}
       THEN lastJob' = job /\ UNCHANGED jobs
       ELSE jobs' = Append(jobs, job) /\ UNCHANGED lastJob

stateManagerVars == <<memVars, listenerVars, storeVars, calls, last, expected, now,
                      readLog, writeLog, maxHarpoonTabs, recoveryVars>>

(* --------------------------- RecoveryManager --------------------------- *)
CriticalErrorThreshold == 10

\* The fields of the RecoveryManager instance as one record;
\* healthCheckInterval says whether the interval timer is running.
Rm == [isInSafeMode |-> isInSafeMode, lastHealthCheck |-> lastHealthCheck,
       recoveryInProgress |-> recoveryInProgress,
       healthCheckInterval |-> healthCheckInterval]

CommitRm(rm) ==
    /\ isInSafeMode' = rm.isInSafeMode
    /\ lastHealthCheck' = rm.lastHealthCheck
    /\ recoveryInProgress' = rm.recoveryInProgress
    /\ healthCheckInterval' = rm.healthCheckInterval

\* What the code between two suspension points of a RecoveryManager method
\* works on: the three singletons' fields, its own activation, the
\* broadcast it has started (fn "" when none) and the storage key it has
\* started to write ("" when none).
World(c) == [m |-> Mem, rm |-> Rm, br |-> Br, call |-> c, job |-> NewJob(""), wrote |-> ""]

\* Variant of returnFromRecovery without the finally block.
returnFromRecovery_KeepsFlag(w, value, viaFinally) ==
    [w EXCEPT !.call.returned = value, !.call.pc = "resolved"]

\* recoverFromCorruption: `return false` of the guard, of the try block and
\* of the catch block, and `return true`; except for the guard, the finally
\* block clears recoveryInProgress.  The caller (nobody, or handleError,
\* which awaits it last) then ends too.
returnFromRecovery(w, value, viaFinally) ==
    [w EXCEPT !.rm.recoveryInProgress = IF viaFinally THEN FALSE ELSE @,
              !.call.returned = value, !.call.pc = "resolved"]

\* exitSafeMode() up to `await messageBroker.broadcastToAllTabs(...)`.
exitSafeMode(w) ==
    LET b == startBroadcastToAllTabs(w.br, NewJob("broadcastToAllTabs"), "safeModeExited",
                                     Options("", Omitted))
    IN [w EXCEPT !.rm.isInSafeMode = FALSE,
                 !.rm.healthCheckInterval = TRUE,      \* restoreSystemActivity
                 !.br = b.br, !.job = b.job,
                 !.call.pc = "exitSafeMode", !.call.awaitJob = b.job.message.id]

\* checkHealth has returned w.call.health: a forced or scheduled check
\* ends; inside recoverFromCorruption, `if (healthCheck.status === ...)`.
returnFromCheckHealth(w) ==
    IF ~w.call.recovering THEN [w EXCEPT !.call.pc = "resolved"]
    ELSE IF w.call.health.status \in {"healthy", "degraded"} THEN exitSafeMode(w)
    ELSE returnFromRecovery(w, "false", TRUE)

\* checkHealth() up to `await storage.getStorageInfo()`.
checkHealth(w) ==
    [w EXCEPT !.call.pc = "getStorageInfo", !.call.components = <<>>, !.call.threw = {}]

\* checkStateManagerHealth, checkMessagingHealth and checkTabManagerHealth
\* (cleanupInvalidTabs finds every recorded tab still open, removes none and
\* catches what it throws), up to cleanupClosedWindows' `await
\* chrome.windows.getAll`.
syncChecks(w) ==
    [w EXCEPT !.call.components =
                  @ \o <<checkStateManagerHealth(Len(w.m.tabHistoryState),
                                                 Len(Flat(w.m.harpoonWindowsState))),
                         checkMessagingHealth(Len(w.br.messageQueue)),
                         checkTabManagerHealth(Len(w.m.tabHistoryState))>>,
              !.call.pc = "getAllWindows"]

\* checkStorageHealth after storage.getStorageInfo() settled: the quota
\* arithmetic, then `await storage.write('systemHealth',
\* stateManager.getSystemHealth())`; the value handed over is kept in newH.
afterGetStorageInfo(w, info, usagePercent) ==
    IF info = "throws"
    THEN syncChecks([w EXCEPT !.call.components = <<checkStorageHealth("throws", 0, "")>>,
                              !.call.threw = @ \cup {"storage"}])
    ELSE [w EXCEPT !.call.pc = "storageWrite", !.call.usagePercent = usagePercent,
                   !.call.newH = w.m.systemHealthState, !.wrote = "systemHealth"]

\* checkStorageHealth after its storage.write settled.
afterStorageWrite(w, write) ==
    syncChecks([w EXCEPT !.call.components =
                             <<checkStorageHealth("ok", w.call.usagePercent, write)>>,
                         !.call.threw = IF write = "throws" THEN @ \cup {"storage"} ELSE @])

\* checkWindowManagerHealth after getAllWindowInfo() returned, up to
\* getScreenshotStats' `await loadScreenshotMap()`.
afterGetAllWindows(w, windowInfoLength) ==
    [w EXCEPT !.call.components = Append(@, checkWindowManagerHealth(windowInfoLength)),
              !.call.pc = "loadScreenshotMap"]

\* checkHealth from `overallScore = ...` on: the aggregation,
\* `this.lastHealthCheck = result`, and the private
\* updateSystemHealth(result) up to the storage.write inside
\* stateManager.updateSystemHealth.
aggregate(w, clock) ==
    LET result == healthResult(w.call.components, clock)
        u == updateSystemHealthSync(
                 w.m, [w.call EXCEPT !.op = HOp(HPartial({"lastHealthCheck"}, 0, clock, 0))])
    IN [w EXCEPT !.rm.lastHealthCheck = result,
                 !.m = u.m,
                 !.call = [u.call EXCEPT !.health = result, !.pc = "persist"],
                 !.wrote = u.wrote]

\* checkScreenshotManagerHealth after getScreenshotStats() returned and
\* checkHarpoonManagerHealth (validateAndCleanupHarpoonTabs finds every
\* harpoon tab still open and removes none), then the aggregation.
afterScreenshotStats(w, totalSize, cacheHitRatio, max, clock) ==
    aggregate([w EXCEPT !.call.components =
                            @ \o <<checkScreenshotManagerHealth(totalSize, cacheHitRatio),
                                   checkHarpoonManagerHealth(
                                       "ok", 0, Len(Flat(w.m.harpoonWindowsState)), max)>>],
              clock)

\* The private updateSystemHealth(healthResult) after the write inside
\* stateManager.updateSystemHealth settled: the record is replaced and the
\* listeners are told, or the rejection is logged; checkHealth returns.
afterPersist(w, ok, ls) ==
    LET u == updateSystemHealthResume(w.m, w.call, ls)
    IN IF ok
       THEN returnFromCheckHealth([w EXCEPT !.m = u.m, !.call.notified = u.call.notified])
       ELSE returnFromCheckHealth([w EXCEPT !.call.threw = @ \cup {"persist"}])

\* createRecoveryPlan(): the component of each action, in order.
createRecoveryPlan(last_) ==
    <<"screenshots", "tabs">> \o (IF last_.status = "critical" THEN <<"state">> ELSE <<>>)

\* The attributes createRecoveryPlan gives to an action and to the plan:
\* the cleanup actions are automated, the reset of 'state' is not;
\* riskLevel is high when an action is a reset; requiresUserConsent when an
\* action is not automated.
actionType(component) == IF component = "state" THEN "reset" ELSE "cleanup"
automated(component) == component # "state"
riskLevel(actions) ==
    IF \E k \in 1..Len(actions) : actionType(actions[k]) = "reset" THEN "high" ELSE "medium"
requiresUserConsent(actions) == \E k \in 1..Len(actions) : ~automated(actions[k])

\* Variant of enterSafeMode that leaves the interval timer as it is.
enterSafeMode_KeepsTimer(w) ==
    LET b == startBroadcastToAllTabs(w.br, NewJob("broadcastToAllTabs"), "safeModeEntered",
                                     Options("", Omitted))
    IN [w EXCEPT !.rm.recoveryInProgress = TRUE,
                 !.rm.isInSafeMode = TRUE,
                 !.br = [b.br EXCEPT !.messageQueue = <<>>],
                 !.job = b.job,
                 !.call.recovering = TRUE,
                 !.call.pc = "enterSafeMode", !.call.awaitJob = b.job.message.id]

\* recoverFromCorruption() past its guard, up to the broadcast of
\* enterSafeMode(): the flag, isInSafeMode, clearVolatileData (clearQueue),
\* reduceSystemActivity (clearInterval).
enterSafeMode(w) ==
    LET b == startBroadcastToAllTabs(w.br, NewJob("broadcastToAllTabs"), "safeModeEntered",
                                     Options("", Omitted))
    IN [w EXCEPT !.rm.recoveryInProgress = TRUE,
                 !.rm.isInSafeMode = TRUE,
                 !.rm.healthCheckInterval = FALSE,
                 !.br = [b.br EXCEPT !.messageQueue = <<>>],
                 !.job = b.job,
                 !.call.recovering = TRUE,
                 !.call.pc = "enterSafeMode", !.call.awaitJob = b.job.message.id]

\* Variant of recoverFromCorruption that does not look at the flag.
recoverFromCorruption_NoGuard(w) == enterSafeMode(w)

\* recoverFromCorruption(): `if (this.recoveryInProgress) return false`.
recoverFromCorruption(w) ==
    IF w.rm.recoveryInProgress THEN returnFromRecovery(w, "false", FALSE)
    ELSE enterSafeMode(w)

\* Variant of executeResetAction's failure handling: the plan goes on with
\* the post-recovery checkHealth as if the action had succeeded.
afterResetFailure_GoesOn(w) ==
    checkHealth([w EXCEPT !.call.postChecked = TRUE])

\* executeRecoveryPlan's catch block: `return false`, after which
\* recoverFromCorruption logs 'Recovery failed' and returns false.
afterResetFailure(w) == returnFromRecovery(w, "false", TRUE)

\* executeRecoveryPlan from the action at position k of the plan up to the
\* next suspension: cleanupScreenshots awaits loadScreenshotMap,
\* cleanupInvalidTabs awaits nothing observable, executeResetAction awaits
\* the write of updateTabHistory({type: 'reorder', tabs: []}); past the
\* last action, `return true` and recoverFromCorruption calls checkHealth.
RECURSIVE executeRecoveryPlan(_, _)
executeRecoveryPlan(w, k) ==
    IF k > Len(w.call.plan)
    THEN checkHealth([w EXCEPT !.call.postChecked = TRUE])
    ELSE LET action == w.call.plan[k]
             entered == [w EXCEPT !.call.executed = Append(@, action)]
             u == updateTabHistorySync(
                      entered.m,
                      [entered.call EXCEPT !.op = Op("reorder", 0, FALSE, NoTab, 0, TRUE, <<>>)])
         IN CASE action = "screenshots" -> [entered EXCEPT !.call.pc = "cleanupScreenshots"]
              [] action = "tabs" -> executeRecoveryPlan(entered, k + 1)
              [] OTHER ->
                   IF u.call.pc = "rejected"
                   THEN afterResetFailure([entered EXCEPT !.call.failed = TRUE])
                   ELSE [entered EXCEPT !.m = u.m, !.wrote = u.wrote,
                                        !.call = [u.call EXCEPT !.pc = "resetWrite"]]

\* The broadcast awaited by enterSafeMode / exitSafeMode has settled.
\* enterSafeMode: rethrown to recoverFromCorruption's catch block, or on to
\* createRecoveryPlan and executeRecoveryPlan.  exitSafeMode: the same
\* catch block, or `return true`.
afterBroadcast(w, ok) ==
    IF ~ok THEN returnFromRecovery(w, "false", TRUE)
    ELSE IF w.call.pc = "exitSafeMode" THEN returnFromRecovery(w, "true", TRUE)
    ELSE executeRecoveryPlan([w EXCEPT !.call.plan = createRecoveryPlan(w.rm.lastHealthCheck),
                                       !.call.executed = <<>>], 1)

\* executeResetAction after the write of updateTabHistory settled: the
\* listeners are told and clearAllHarpoonTabs() finds no window to clear,
\* or updateTabHistory rethrows.
afterResetWrite(w, ok, ls) ==
    LET u == updateTabHistoryResume(w.m, w.call, ls)
    IN IF ok
       THEN executeRecoveryPlan([w EXCEPT !.m = u.m, !.call.notified = u.call.notified],
                                Len(w.call.executed) + 1)
       ELSE afterResetFailure([w EXCEPT !.call.failed = TRUE])

\* handleError(error) up to the storage.write inside
\* stateManager.updateSystemHealth({errorCount: systemHealth.errorCount + 1}).
handleError(w) ==
    LET systemHealth == w.m.systemHealthState
        u == updateSystemHealthSync(
                 w.m, [w.call EXCEPT
                          !.op = HOp(HPartial({"errorCount"}, systemHealth.errorCount + 1, 0, 0))])
    IN [w EXCEPT !.m = u.m, !.wrote = u.wrote,
                 !.call = [u.call EXCEPT !.errorCount = systemHealth.errorCount,
                                         !.pc = "errorWrite"]]

\* handleError: `systemHealth.errorCount >= this.criticalErrorThreshold`,
\* on the record read before the update.
reachedThreshold(errorCount) == errorCount >= CriticalErrorThreshold

\* handleError after that write settled: the threshold test on the count
\* read before the update and recoverFromCorruption(), or the catch block.
afterErrorWrite(w, ok, ls) ==
    LET u == updateSystemHealthResume(w.m, w.call, ls)
        updated == [w EXCEPT !.m = u.m, !.call.notified = u.call.notified]
    IN IF ~ok THEN [w EXCEPT !.call.pc = "resolved", !.call.threw = {"errorWrite"}]
       ELSE IF reachedThreshold(w.call.errorCount) THEN recoverFromCorruption(updated)
       ELSE [updated EXCEPT !.call.pc = "resolved"]

\* The activation at position i goes on as w says.
CommitWorld(i, w) ==
    /\ Commit(w.m) /\ CommitRm(w.rm) /\ CommitBr(w.br)
    /\ Advance(i, w.call)
    /\ jobs' = IF w.job.fn = "" THEN jobs ELSE Append(jobs, w.job)
    /\ writeLog' = Bump(writeLog, w.wrote)
    /\ UNCHANGED <<lastJob, listenerVars, expected, now, readLog, maxHarpoonTabs, issued>>

\* A RecoveryManager method is called and runs to its first suspension.
EnterWorld(w) ==
    /\ isInitialized
    /\ Commit(w.m) /\ CommitRm(w.rm) /\ CommitBr(w.br)
    /\ Enter(w.call)
    /\ jobs' = IF w.job.fn = "" THEN jobs ELSE Append(jobs, w.job)
    /\ writeLog' = Bump(writeLog, w.wrote)
    /\ UNCHANGED <<lastJob, listenerVars, storeVars, expected, now, readLog, maxHarpoonTabs>>

\* checkHealth() / forceHealthCheck() / the interval timer's callback
CheckHealth == EnterWorld(checkHealth(World(NewCall("checkHealth", NoOp))))

\* scheduleHealthCheck: the interval has passed and the timer's callback
\* calls checkHealth().
HealthCheckTick ==
    /\ healthCheckInterval
    /\ EnterWorld(checkHealth(World([NewCall("checkHealth", NoOp) EXCEPT !.viaTimer = TRUE])))

\* recoverFromCorruption()
RecoverFromCorruption ==
    EnterWorld(recoverFromCorruption(World(NewCall("recoverFromCorruption", NoOp))))

\* An 'error' or 'unhandledrejection' event: handleError(error)
HandleError == EnterWorld(handleError(World(NewCall("handleError", NoOp))))

InfoOutcomes == {"ok", "throws"}
WriteOutcomes == {"ok", "throws"}

\* storage.getStorageInfo() settles.
GetStorageInfoSettles(i, info, usagePercent) ==
    /\ i \in 1..Len(calls) /\ calls[i].pc = "getStorageInfo"
    /\ CommitWorld(i, afterGetStorageInfo(World(calls[i]), info, usagePercent))
    /\ UNCHANGED storeVars

\* The storage.write of checkStorageHealth settles.
StorageTestWriteSettles(i, write) ==
    /\ i \in 1..Len(calls) /\ calls[i].pc = "storageWrite"
    /\ IF write = "ok"
       THEN /\ store' = [store EXCEPT !.systemHealth = calls[i].newH]
            /\ present' = present \cup {"systemHealth"}
       ELSE UNCHANGED storeVars
    /\ CommitWorld(i, afterStorageWrite(World(calls[i]), write))

\* cleanupClosedWindows() and getAllWindowInfo() have run.
GetAllWindowsAnswers(i, windowInfoLength) ==
    /\ i \in 1..Len(calls) /\ calls[i].pc = "getAllWindows"
    /\ CommitWorld(i, afterGetAllWindows(World(calls[i]), windowInfoLength))
    /\ UNCHANGED storeVars

\* getScreenshotStats() has run, and validateAndCleanupHarpoonTabs().
ScreenshotStatsAnswer(i, totalSize, cacheHitRatio) ==
    /\ i \in 1..Len(calls) /\ calls[i].pc = "loadScreenshotMap"
    /\ CommitWorld(i, afterScreenshotStats(World(calls[i]), totalSize, cacheHitRatio,
                                           maxHarpoonTabs, now))
    /\ UNCHANGED storeVars

\* checkHealth goes on past its last component check.
Aggregate(i) ==
    /\ i \in 1..Len(calls) /\ calls[i].pc = "aggregate"
    /\ CommitWorld(i, aggregate(World(calls[i]), now))
    /\ UNCHANGED storeVars

\* The write of checkHealth's updateSystemHealth settles.
PersistSettles(i, write) ==
    /\ i \in 1..Len(calls) /\ calls[i].pc = "persist"
    /\ IF write = "ok"
       THEN /\ store' = [store EXCEPT !.systemHealth = calls[i].newH]
            /\ present' = present \cup {"systemHealth"}
       ELSE UNCHANGED storeVars
    /\ CommitWorld(i, afterPersist(World(calls[i]), write = "ok", systemHealthListeners))

\* screenshotManager.cleanupScreenshots() has run (it catches what it throws).
CleanupScreenshotsEnds(i) ==
    /\ i \in 1..Len(calls) /\ calls[i].pc = "cleanupScreenshots"
    /\ CommitWorld(i, executeRecoveryPlan(World(calls[i]), Len(calls[i].executed) + 1))
    /\ UNCHANGED storeVars

\* The write of executeResetAction's updateTabHistory settles.
ResetWriteSettles(i, write) ==
    /\ i \in 1..Len(calls) /\ calls[i].pc = "resetWrite"
    /\ IF write = "ok"
       THEN /\ store' = [store EXCEPT !.tabHistory = calls[i].newTabs]
            /\ present' = present \cup {"tabHistory"}
       ELSE UNCHANGED storeVars
    /\ CommitWorld(i, afterResetWrite(World(calls[i]), write = "ok", tabHistoryListeners))

\* The write of handleError's updateSystemHealth settles.
ErrorWriteSettles(i, write) ==
    /\ i \in 1..Len(calls) /\ calls[i].pc = "errorWrite"
    /\ IF write = "ok"
       THEN /\ store' = [store EXCEPT !.systemHealth = calls[i].newH]
            /\ present' = present \cup {"systemHealth"}
       ELSE UNCHANGED storeVars
    /\ CommitWorld(i, afterErrorWrite(World(calls[i]), write = "ok", systemHealthListeners))

(* ------------------------------ TabManager ----------------------------- *)
\* part_005 getChromeTab / getChromeWindow: the promise resolves with the
\* tab or window, resolves with null when the callback finds
\* chrome.runtime.lastError (the tab or window does not exist), and rejects
\* only when the chrome call throws inside the executor.
ChromeAnswers == {"found", "lastError", "throws"}
getChromeTab(answer) ==
    [rejected |-> answer = "throws", value |-> IF answer = "found" THEN "tab" ELSE "null"]
getChromeWindow(answer) ==
    [rejected |-> answer = "throws", value |-> IF answer = "found" THEN "window" ELSE "null"]

\* part_005 validateTab(tab), chrome answering tabAnswer and windowAnswer.
validateTab(tab, tabAnswer, windowAnswer) ==
    LET errors ==
            (IF tab.id = 0 THEN {"Missing tab ID"} ELSE {})
            \cup (IF tab.url = "" THEN {"Missing tab URL"} ELSE {})
            \cup (IF tab.title = "" THEN {"Missing tab title"} ELSE {})
            \cup (IF tab.windowId = 0 THEN {"Missing window ID"} ELSE {})
            \cup (IF tab.id # 0 /\ getChromeTab(tabAnswer).rejected
                  THEN {"Tab no longer exists in Chrome"} ELSE {})
            \cup (IF tab.windowId # 0 /\ getChromeWindow(windowAnswer).rejected
                  THEN {"Window no longer exists"} ELSE {})
    IN [valid |-> errors = {}, errors |-> errors]

\* cleanupInvalidTabs: the ids of the tabs whose validation rejected or was
\* not valid, in the order in which the Set received them.
invalidTabIdsOf(tabs, tabAnswers, windowAnswers) ==
    LET invalid(k) == ~validateTab(tabs[k],
                                   IF tabs[k].id \in DOMAIN tabAnswers
                                   THEN tabAnswers[tabs[k].id] ELSE "found",
                                   IF tabs[k].windowId \in DOMAIN windowAnswers
                                   THEN windowAnswers[tabs[k].windowId] ELSE "found").valid
        first == SelectSeq([k \in 1..Len(tabs) |-> k],
                           LAMBDA k : /\ invalid(k)
                                      /\ \A j \in 1..(k - 1) :
                                            invalid(j) => tabs[j].id # tabs[k].id)
    IN [k \in 1..Len(first) |-> tabs[first[k]].id]

\* cleanupInvalidTabs returns; its catch block has logged what was thrown.
returnFromCleanup(w) == [w EXCEPT !.call.pc = "resolved", !.call.err = ""]

\* The for loop over invalidTabIds at position k up to the write of
\* updateTabHistory({type: 'remove', tabId}); past the loop,
\* broadcastTabUpdatesPerWindow() up to `await this.getAllWindows()`.
cleanupLoop(w, k) ==
    IF k > Len(w.call.cleanup.invalidTabIds)
    THEN [w EXCEPT !.call.pc = "cleanupGetAllWindows"]
    ELSE LET tabId == w.call.cleanup.invalidTabIds[k]
             u == updateTabHistorySync(
                      w.m, [w.call EXCEPT !.op = Op("remove", 0, FALSE, NoTab, tabId, FALSE, <<>>)])
         IN IF u.call.pc = "rejected" THEN returnFromCleanup(w)
            ELSE [w EXCEPT !.m = u.m, !.wrote = u.wrote,
                           !.call = [u.call EXCEPT !.pc = "cleanupHistoryWrite",
                                                   !.cleanup.at = k]]

\* cleanupInvalidTabs() up to `await Promise.allSettled(...)`.
cleanupInvalidTabs(w) ==
    [w EXCEPT !.call.pc = "validate",
              !.call.cleanup = [NoCleanup EXCEPT !.allTabs = w.m.tabHistoryState,
                                                 !.harpoonTabs = Flat(w.m.harpoonWindowsState)]]

\* All validations have settled: invalidTabIds is built and, if it is not
\* empty, the loop starts.
afterValidations(w, tabAnswers, windowAnswers) ==
    LET c == w.call.cleanup
        invalidTabIds == invalidTabIdsOf(c.allTabs \o c.harpoonTabs, tabAnswers, windowAnswers)
        v == [w EXCEPT !.call.cleanup.invalidTabIds = invalidTabIds,
                       !.call.cleanup.tabAnswers = tabAnswers,
                       !.call.cleanup.windowAnswers = windowAnswers]
    IN IF Len(invalidTabIds) > 0 THEN cleanupLoop(v, 1) ELSE returnFromCleanup(v)

\* The write of updateTabHistory has settled: updateTabHistory rethrows,
\* or tells its listeners, and cleanupInvalidTabs removes the tab from
\* the harpoon partition of the window of harpoonTabs.find(...), if any.
afterCleanupHistoryWrite(w, ok, ls) ==
    LET c == w.call.cleanup
        tabId == c.invalidTabIds[c.at]
        found == SelectSeq(c.harpoonTabs, LAMBDA t : t.id = tabId)
        u == updateTabHistoryResume(w.m, w.call, ls)
        told == [w EXCEPT !.m = u.m, !.call.notified = u.call.notified]
        h == updateHarpoonTabsSync(
                 told.m, [told.call EXCEPT
                             !.op = Op("remove", found[1].windowId, FALSE, NoTab, tabId,
                                       FALSE, <<>>)])
    IN IF ~ok THEN returnFromCleanup(w)
       ELSE IF Len(found) = 0 THEN cleanupLoop(told, c.at + 1)
       ELSE IF h.call.pc = "rejected" THEN returnFromCleanup(told)
       ELSE [told EXCEPT !.m = h.m, !.wrote = h.wrote,
                         !.call = [h.call EXCEPT !.pc = "cleanupHarpoonWrite"]]

\* The write of updateHarpoonTabs has settled.
afterCleanupHarpoonWrite(w, ok, ls) ==
    LET u == updateHarpoonTabsResume(w.m, w.call, ls)
    IN IF ~ok THEN returnFromCleanup(w)
       ELSE cleanupLoop([w EXCEPT !.m = u.m, !.call.notified = u.call.notified],
                        w.call.cleanup.at + 1)

\* broadcastTabUpdatesPerWindow after getAllWindows answered n windows
\* (at most one here): the broadcastToWindow of 'tabsUpdated' for window
\* 1, or, there being none, on to broadcastToAllTabs('harpoonChanged').
afterCleanupGetAllWindows(w, n) ==
    LET b == IF n = 0
             THEN startBroadcastToAllTabs(w.br, NewJob("broadcastToAllTabs"),
                                          "harpoonChanged", Options("", Omitted))
             ELSE startBroadcastToWindow(w.br, NewJob("broadcastToWindow"), 1,
                                         "tabsUpdated", Options("", Omitted))
    IN [w EXCEPT !.br = b.br, !.job = b.job,
                 !.call.pc = IF n = 0 THEN "cleanupHarpoonChanged" ELSE "cleanupTabsUpdated",
                 !.call.awaitJob = b.job.message.id]

\* A broadcast awaited by cleanupInvalidTabs has settled.  The window
\* broadcast: on to 'harpoonChanged', or, rejected, to the fallback
\* broadcastToAllTabs('tabsUpdated') of broadcastTabUpdatesPerWindow's
\* catch block.  The fallback: on to 'harpoonChanged', or, rejected, to the
\* catch block of cleanupInvalidTabs.  'harpoonChanged': the method ends.
afterCleanupBroadcast(w, ok) ==
    CASE w.call.pc = "cleanupTabsUpdated" ->
             [w EXCEPT !.call.pc = IF ok THEN "cleanupStartHarpoonChanged"
                                   ELSE "cleanupStartFallback"]
      [] w.call.pc = "cleanupFallback" /\ ok ->
             [w EXCEPT !.call.pc = "cleanupStartHarpoonChanged"]
      [] OTHER -> returnFromCleanup(w)

\* The next broadcast of cleanupInvalidTabs is called.
startCleanupBroadcast(w) ==
    LET fallback == w.call.pc = "cleanupStartFallback"
        b == startBroadcastToAllTabs(w.br, NewJob("broadcastToAllTabs"),
                                     IF fallback THEN "tabsUpdated" ELSE "harpoonChanged",
                                     Options("", Omitted))
    IN [w EXCEPT !.br = b.br, !.job = b.job,
                 !.call.pc = IF fallback THEN "cleanupFallback" ELSE "cleanupHarpoonChanged",
                 !.call.awaitJob = b.job.message.id]

\* cleanupInvalidTabs()
CleanupInvalidTabs == EnterWorld(cleanupInvalidTabs(World(NewCall("cleanupInvalidTabs", NoOp))))

\* chrome.tabs.get and chrome.windows.get have answered every validateTab.
ValidationsSettle(i, tabAnswers, windowAnswers) ==
    /\ i \in 1..Len(calls) /\ calls[i].pc = "validate"
    /\ CommitWorld(i, afterValidations(World(calls[i]), tabAnswers, windowAnswers))
    /\ UNCHANGED storeVars

\* The write of cleanupInvalidTabs's updateTabHistory settles.
CleanupHistoryWriteSettles(i, write) ==
    /\ i \in 1..Len(calls) /\ calls[i].pc = "cleanupHistoryWrite"
    /\ IF write = "ok"
       THEN /\ store' = [store EXCEPT !.tabHistory = calls[i].newTabs]
            /\ present' = present \cup {"tabHistory"}
       ELSE UNCHANGED storeVars
    /\ CommitWorld(i, afterCleanupHistoryWrite(World(calls[i]), write = "ok",
                                               tabHistoryListeners))

\* The write of cleanupInvalidTabs's updateHarpoonTabs settles.
CleanupHarpoonWriteSettles(i, write) ==
    /\ i \in 1..Len(calls) /\ calls[i].pc = "cleanupHarpoonWrite"
    /\ IF write = "ok"
       THEN /\ store' = [store EXCEPT !.harpoonWindows = calls[i].newWindows]
            /\ present' = present \cup {"harpoonWindows"}
       ELSE UNCHANGED storeVars
    /\ CommitWorld(i, afterCleanupHarpoonWrite(World(calls[i]), write = "ok",
                                               harpoonTabsListeners))

\* getAllWindows answers broadcastTabUpdatesPerWindow.
CleanupGetAllWindowsAnswers(i, n) ==
    /\ i \in 1..Len(calls) /\ calls[i].pc = "cleanupGetAllWindows"
    /\ CommitWorld(i, afterCleanupGetAllWindows(World(calls[i]), n))
    /\ UNCHANGED storeVars

\* cleanupInvalidTabs goes on to its next broadcast (a step of its own
\* here; in the program the same turn as the settling of the one before).
CleanupBroadcastStarts(i) ==
    /\ i \in 1..Len(calls)
    /\ calls[i].pc \in {"cleanupStartHarpoonChanged", "cleanupStartFallback"}
    /\ CommitWorld(i, startCleanupBroadcast(World(calls[i])))
    /\ UNCHANGED storeVars

CleanupPcs == {"cleanupTabsUpdated", "cleanupFallback", "cleanupHarpoonChanged"}

\* A broker job has taken a step and become job: when it has settled, the
\* enterSafeMode / exitSafeMode / cleanupInvalidTabs awaiting it goes on in
\* the same turn.
ResumeAwaiter(job) ==
    LET waiting == {i \in 1..Len(calls) :
                       /\ calls[i].pc \in {"enterSafeMode", "exitSafeMode"} \cup CleanupPcs
                       /\ calls[i].awaitJob = job.message.id}
    IN IF job.fn \in {"broadcastToAllTabs", "broadcastToWindow"}
          /\ job.pc \in {"resolved", "rejected"} /\ waiting # {}
       THEN LET i == CHOOSE x \in waiting : TRUE
                w == IF calls[i].pc \in CleanupPcs
                     THEN afterCleanupBroadcast(World(calls[i]), job.pc = "resolved")
                     ELSE afterBroadcast(World(calls[i]), job.pc = "resolved")
            IN /\ Commit(w.m) /\ CommitRm(w.rm)
               /\ Advance(i, w.call)
               /\ writeLog' = Bump(writeLog, w.wrote)
               /\ UNCHANGED <<listenerVars, storeVars, expected, now, readLog, maxHarpoonTabs>>
       ELSE UNCHANGED stateManagerVars

\* sendMessage(tabId, type, payload, options)
SendMessage(tabId, type, options) ==
    /\ LET r == startSendMessage(Br, [NewJob("sendMessage") EXCEPT !.options = options],
                                 tabId, type, options)
       IN CommitBr(r.br) /\ EnterJob(r.job)
    /\ UNCHANGED stateManagerVars

\* broadcastToAllTabs(type, payload, options)
BroadcastToAllTabs(type, options) ==
    /\ LET r == startBroadcastToAllTabs(Br, NewJob("broadcastToAllTabs"), type, options)
       IN CommitBr(r.br) /\ EnterJob(r.job)
    /\ UNCHANGED stateManagerVars

\* chrome.tabs.query answers (getEligibleTabs / getTabsInWindow): the tabs
\* are filtered with canReceiveMessages; broadcastToAllTabs starts a
\* sendMessageWithRetry for every eligible tab, broadcastToWindow for the
\* first one.
QueryAnswers(j, tabs) ==
    /\ j \in 1..Len(jobs) /\ jobs[j].pc = "query"
    /\ jobs[j].kind = "window" => \A k \in 1..Len(tabs) : tabs[k].windowId = jobs[j].windowId
    /\ LET eligibleTabs == SelectSeq(tabs, canReceiveMessages)
           queued == [jobs[j] EXCEPT !.pc = "sending", !.queried = tabs,
                         !.sends = [k \in 1..Len(eligibleTabs) |-> NewSend(eligibleTabs[k].id)]]
           started == IF eligibleTabs = <<>> THEN queued
                      ELSE IF queued.kind = "all" THEN StartAll(queued, 1)
                      ELSE StartAttempt(queued, 1)
           r == IF eligibleTabs = <<>> THEN afterSends(Br, started)
                ELSE [br |-> Br, job |-> started]
       IN CommitBr(r.br) /\ AdvanceJob(j, r.job) /\ ResumeAwaiter(r.job)
    /\ UNCHANGED issued

\* chrome.tabs.query throws inside the Promise executor of
\* getEligibleTabs: broadcastToAllTabs logs and rethrows.
QueryThrows(j) ==
    /\ j \in 1..Len(jobs) /\ jobs[j].pc = "query"
    /\ jobs[j].fn \in {"broadcastToAllTabs", "broadcastToWindow", "withTransaction"}
    /\ LET r == IF jobs[j].fn = "withTransaction"
                THEN withTransactionCatch(Br, jobs[j], QueryError)
                ELSE [br |-> Br, job |-> [jobs[j] EXCEPT !.pc = "rejected"]]
       IN CommitBr(r.br) /\ AdvanceJob(j, r.job) /\ ResumeAwaiter(r.job)
    /\ UNCHANGED issued

\* A sendSingleMessage settles with outcome; sendMessageWithRetry goes on,
\* and when it returns, so does its caller.
AttemptSettles(j, k, outcome) ==
    /\ j \in 1..Len(jobs) /\ jobs[j].pc = "sending"
    /\ k \in 1..Len(jobs[j].sends) /\ jobs[j].sends[k].pc = "single"
    /\ LET s == sendMessageWithRetry(jobs[j].sends[k], jobs[j].message, outcome)
           job == [jobs[j] EXCEPT !.sends[k] =
                      [s EXCEPT !.outcome = outcome,
                                !.received = @ + (IF ReceivedBy(outcome) THEN 1 ELSE 0)]]
           next == IF s.pc = "done" /\ job.kind = "window" /\ k < Len(job.sends)
                   THEN StartAttempt(job, k + 1) ELSE job
           r == IF AllDone(next) THEN afterSends(Br, next) ELSE [br |-> Br, job |-> next]
       IN CommitBr(r.br) /\ AdvanceJob(j, r.job) /\ ResumeAwaiter(r.job)
    /\ UNCHANGED issued

\* The backoff delay of a sendMessageWithRetry is over: next attempt.
DelayElapses(j, k) ==
    /\ j \in 1..Len(jobs) /\ jobs[j].pc = "sending"
    /\ k \in 1..Len(jobs[j].sends) /\ jobs[j].sends[k].pc = "delay"
    /\ AdvanceJob(j, StartAttempt([jobs[j] EXCEPT !.sends[k].attempt = @ + 1], k))
    /\ UNCHANGED <<stateManagerVars, issued, messageCounter, transactionCounter, txs,
                   activeTransactions, queueVars>>

\* cleanupOldTransactions: drops the transactions whose id carries a
\* timestamp more than ten minutes old.
cleanupOldTransactions(active, all, clock) ==
    SelectSeq(active, LAMBDA h : ~(all[h].id.timestamp < clock - TenMinutes))

\* beginTransaction()
BeginTransaction ==
    /\ LET kept == IF Len(activeTransactions) >= MaxActiveTransactions
                   THEN cleanupOldTransactions(activeTransactions, txs, now)
                   ELSE activeTransactions
           transaction == [id |-> [counter |-> transactionCounter + 1, timestamp |-> now],
                           messages |-> <<>>, committed |-> FALSE, rolledBack |-> FALSE]
       IN /\ transactionCounter' = transactionCounter + 1
          /\ txs' = Append(txs, transaction)
          /\ activeTransactions' = Append(kept, Len(txs) + 1)
    /\ EnterJob([NewJob("beginTransaction") EXCEPT !.pc = "resolved", !.tx = Len(txs) + 1])
    /\ UNCHANGED <<stateManagerVars, messageCounter, queueVars>>

\* addToTransaction(tx, type, payload, target, options); target is this
\* QueuedMessage without its message.
AddToTransaction(h, type, target, options) ==
    /\ h \in 1..Len(txs)
    /\ IF txs[h].committed \/ txs[h].rolledBack
       THEN /\ EnterJob([NewJob("addToTransaction") EXCEPT
                            !.pc = "rejected", !.err = NoLongerActive, !.tx = h])
            /\ UNCHANGED <<messageCounter, txs>>
       ELSE /\ messageCounter' = messageCounter + 1
            /\ txs' = [txs EXCEPT ![h].messages =
                          Append(@, [target EXCEPT
                                        !.message = createMessage(messageCounter, type, options)])]
            /\ EnterJob([NewJob("addToTransaction") EXCEPT !.pc = "resolved", !.tx = h])
    /\ UNCHANGED <<stateManagerVars, transactionCounter, activeTransactions, queueVars>>

\* commitTransaction(tx)
CommitTransaction(h) ==
    /\ h \in 1..Len(txs)
    /\ IF txs[h].committed \/ txs[h].rolledBack
       THEN /\ EnterJob([NewJob("commitTransaction") EXCEPT
                            !.pc = "rejected", !.err = NoLongerActive, !.tx = h])
            /\ UNCHANGED <<messageCounter, transactionCounter, txs, activeTransactions,
                           queueVars>>
       ELSE LET r == commitLoop(Br, [NewJob("commitTransaction") EXCEPT !.tx = h, !.idx = 1])
            IN CommitBr(r.br) /\ EnterJob(r.job)
    /\ UNCHANGED stateManagerVars

\* Variant of RollbackTransaction without the check of the flags.
RollbackTransaction_NoCheck(h) ==
    /\ h \in 1..Len(txs)
    /\ txs' = [txs EXCEPT ![h].rolledBack = TRUE]
    /\ activeTransactions' = SelectSeq(activeTransactions, LAMBDA x : x # h)
    /\ EnterJob([NewJob("rollbackTransaction") EXCEPT !.pc = "resolved", !.tx = h])
    /\ UNCHANGED <<stateManagerVars, messageCounter, transactionCounter, queueVars>>

\* rollbackTransaction(tx)
RollbackTransaction(h) ==
    /\ h \in 1..Len(txs)
    /\ IF txs[h].committed \/ txs[h].rolledBack
       THEN /\ EnterJob([NewJob("rollbackTransaction") EXCEPT
                            !.pc = "rejected", !.err = NoLongerActive, !.tx = h])
            /\ UNCHANGED <<txs, activeTransactions>>
       ELSE /\ txs' = [txs EXCEPT ![h].rolledBack = TRUE]
            /\ activeTransactions' = SelectSeq(activeTransactions, LAMBDA x : x # h)
            /\ EnterJob([NewJob("rollbackTransaction") EXCEPT !.pc = "resolved", !.tx = h])
    /\ UNCHANGED <<stateManagerVars, messageCounter, transactionCounter, queueVars>>

\* withTransaction(fn) up to await fn(tx): beginTransaction() and the call
\* of fn.
WithTransaction ==
    /\ LET kept == IF Len(activeTransactions) >= MaxActiveTransactions
                   THEN cleanupOldTransactions(activeTransactions, txs, now)
                   ELSE activeTransactions
           transaction == [id |-> [counter |-> transactionCounter + 1, timestamp |-> now],
                           messages |-> <<>>, committed |-> FALSE, rolledBack |-> FALSE]
       IN /\ transactionCounter' = transactionCounter + 1
          /\ txs' = Append(txs, transaction)
          /\ activeTransactions' = Append(kept, Len(txs) + 1)
    /\ EnterJob([NewJob("withTransaction") EXCEPT !.pc = "fn", !.tx = Len(txs) + 1])
    /\ UNCHANGED <<stateManagerVars, messageCounter, queueVars>>

\* The transactions handed to an fn that has not settled yet.
InFn == {jobs[j].tx : j \in {x \in 1..Len(jobs) :
                                 jobs[x].fn = "withTransaction" /\ jobs[x].pc = "fn"}}

\* The promise of fn(tx) settles: withTransaction goes on.
FnSettles(j, outcome) ==
    /\ j \in 1..Len(jobs) /\ jobs[j].fn = "withTransaction" /\ jobs[j].pc = "fn"
    /\ LET r == afterFn(Br, jobs[j], outcome)
       IN CommitBr(r.br) /\ AdvanceJob(j, r.job)
    /\ UNCHANGED <<stateManagerVars, issued>>

\* Variant of makeRoom that gives up the message enqueued last.
makeRoom_DropsNewest(queue) ==
    IF Len(queue) >= MaxQueueSize THEN SubSeq(queue, 1, Len(queue) - 1) ELSE queue

\* enqueueMessage: if (this.messageQueue.length >= this.maxQueueSize)
\* this.messageQueue.shift()
makeRoom(queue) ==
    IF Len(queue) >= MaxQueueSize THEN Tail(queue) ELSE queue

\* enqueueMessage(message, tabId, windowId, broadcast)
EnqueueMessage(message, tabId, windowId, broadcast) ==
    /\ LET room == makeRoom(messageQueue)
           pushed == [Br EXCEPT !.messageQueue =
                         Append(room, Queued(message, tabId, windowId, broadcast))]
           r == processQueue(pushed, NewJob("processQueue"))
       IN IF processingQueue
          THEN CommitBr(pushed) /\ issued' = issued + 1 /\ UNCHANGED <<jobs, lastJob>>
          ELSE CommitBr(r.br) /\ EnterJob(r.job)
    /\ UNCHANGED stateManagerVars

\* startQueueProcessor: 100ms have passed and the setInterval callback runs.
QueueProcessorTick ==
    /\ now < MaxClock
    /\ now' = now + 1
    /\ IF ~processingQueue /\ Len(messageQueue) > 0
       THEN LET r == processQueue(Br, NewJob("processQueue"))
            IN /\ CommitBr(r.br)
               /\ IF r.job.pc = "resolved" THEN lastJob' = r.job /\ UNCHANGED jobs
                  ELSE jobs' = Append(jobs, r.job) /\ UNCHANGED lastJob
       ELSE UNCHANGED brokerVars
    /\ UNCHANGED <<memVars, listenerVars, storeVars, callVars, readLog, writeLog,
                   maxHarpoonTabs, recoveryVars>>

(* --------------------------- specifications ---------------------------- *)
EmptyStore == [tabHistory |-> <<>>, harpoonHistory |-> <<>>, harpoonWindows |-> EmptyMap,
               windowStates |-> EmptyMap, systemHealth |-> DefaultHealth]

\* The singletons as constructed (state-manager.ts field initialisers,
\* lines 36-52; HarpoonManager.maxHarpoonTabs).
Constructed ==
    /\ isInitialized = FALSE
    /\ tabHistoryState = <<>>
    /\ harpoonTabsState = <<>>
    /\ harpoonWindowsState = EmptyMap
    /\ windowStatesState = EmptyMap
    /\ systemHealthState = DefaultHealth
    /\ heap = <<>>
    /\ tabHistoryListeners = <<>>
    /\ harpoonTabsListeners = <<>>
    /\ windowStatesListeners = <<>>
    /\ systemHealthListeners = <<>>
    /\ calls = <<>>
    /\ last = NewCall("", NoOp)
    /\ issued = 0
    /\ expected = ExpectedLoaded(EmptyMap)
    /\ now = 0
    /\ readLog = [k \in StorageKeys |-> 0]
    /\ writeLog = [k \in StorageKeys |-> 0]
    /\ maxHarpoonTabs = DefaultMaxHarpoonTabs
    /\ messageCounter = 0
    /\ transactionCounter = 0
    /\ txs = <<>>
    /\ activeTransactions = <<>>
    /\ jobs = <<>>
    /\ lastJob = NewJob("")
    /\ messageQueue = <<>>
    /\ processingQueue = FALSE
    /\ isInSafeMode = FALSE
    /\ lastHealthCheck = NoHealth
    /\ recoveryInProgress = FALSE
    /\ healthCheckInterval = TRUE

\* What an earlier session of the extension left in the store: a tab
\* history and two harpoon partitions, written by the update methods.
TabA == Tab(1, 1, "u", "t")
TabB == Tab(2, 1, "u", "t")
TabC == Tab(1, 2, "u", "t")
TabD == Tab(2, 2, "u", "t")
SeedStore == [EmptyStore EXCEPT !.tabHistory = <<TabD, TabA>>,
                                !.harpoonWindows = MapSet(MapSet(EmptyMap, 1, <<TabA, TabB>>),
                                                          2, <<TabC>>)]
SeedKeys == {"tabHistory", "harpoonWindows", "windowStates", "systemHealth"}

\* Harpoon traffic: the service worker constructs the manager and awaits
\* initialize() before anything else (service-worker.ts line 70);
\* afterwards updateHarpoonTabs calls arrive while earlier writes may still
\* be pending.
InitHarpoon ==
    /\ Constructed
    /\ store = SeedStore
    /\ present = SeedKeys

NextHarpoon ==
    \/ issued = 0 /\ Initialize
    \/ \E i \in 1..Len(calls) : InitReadOk(i)
    \/ \E op \in HarpoonOps : isInitialized /\ issued <= MaxCalls /\ UpdateHarpoonTabs(op)
    \/ \E i \in 1..Len(calls) : StorageWriteOk(i)
    \/ \E i \in 1..Len(calls) : StorageWriteFail(i)

SpecHarpoon == InitHarpoon /\ [][NextHarpoon]_vars

\* Tab traffic: as above, with updateTabHistory and updateHarpoonTabs calls
\* and the service worker's own listeners (setupManagerCoordination,
\* service-worker.ts lines 459-474), subscribed before the traffic starts.
InitTabs ==
    /\ Constructed
    /\ store = SeedStore
    /\ present = SeedKeys

NextTabs ==
    \/ issued = 0 /\ Initialize
    \/ \E i \in 1..Len(calls) : InitReadOk(i)
    \/ isInitialized /\ issued = 1 /\ SubscribeToTabHistory(MaxListeners)
    \/ isInitialized /\ issued = 1 /\ SubscribeToHarpoonTabs(MaxListeners)
    \/ \E op \in TabHistoryOps : isInitialized /\ issued <= MaxTabCalls /\ UpdateTabHistory(op)
    \/ \E op \in HarpoonOps : isInitialized /\ issued <= MaxTabCalls /\ UpdateHarpoonTabs(op)
    \/ \E i \in 1..Len(calls) : StorageWriteOk(i)
    \/ \E i \in 1..Len(calls) : StorageWriteFail(i)

SpecTabs == InitTabs /\ [][NextTabs]_vars

\* Listener traffic: components subscribe and unsubscribe at any time
\* after start-up while updates of the tab history and of the harpoon
\* arrive.
ListenTabOps ==
    {Op("add", 0, TRUE, Tab(MaxTabId, MaxWindowId, "u", "t"), 0, FALSE, <<>>),
     Op("remove", 0, FALSE, NoTab, 1, FALSE, <<>>)}
ListenHarpoonOps ==
    {Op("add", MaxWindowId, TRUE, Tab(MaxTabId, MaxWindowId, "u", "t"), 0, FALSE, <<>>),
     Op("clear", 1, FALSE, NoTab, 0, FALSE, <<>>)}

InitListen ==
    /\ Constructed
    /\ store = SeedStore
    /\ present = SeedKeys

NextListen ==
    \/ issued = 0 /\ Initialize
    \/ \E i \in 1..Len(calls) : InitReadOk(i)
    \/ \E l \in Listeners : isInitialized /\ SubscribeToTabHistory(l)
    \/ \E l \in Listeners : isInitialized /\ UnsubscribeFromTabHistory(l)
    \/ \E l \in Listeners : isInitialized /\ SubscribeToHarpoonTabs(l)
    \/ \E l \in Listeners : isInitialized /\ UnsubscribeFromHarpoonTabs(l)
    \/ \E op \in ListenTabOps :
          isInitialized /\ issued <= MaxTabCalls /\ UpdateTabHistory(op)
    \/ \E op \in ListenHarpoonOps :
          isInitialized /\ issued <= MaxTabCalls /\ UpdateHarpoonTabs(op)
    \/ \E i \in 1..Len(calls) : StorageWriteOk(i)
    \/ \E i \in 1..Len(calls) : StorageWriteFail(i)

SpecListen == InitListen /\ [][NextListen]_vars

\* Overlapping updates with listeners: a second update of a slice may be
\* called while the first one's write is pending.
InitOverlap ==
    /\ Constructed
    /\ store = SeedStore
    /\ present = SeedKeys

NextOverlap ==
    \/ issued = 0 /\ Initialize
    \/ \E i \in 1..Len(calls) : InitReadOk(i)
    \/ \E l \in Listeners : isInitialized /\ SubscribeToTabHistory(l)
    \/ \E l \in Listeners : isInitialized /\ UnsubscribeFromTabHistory(l)
    \/ \E l \in Listeners : isInitialized /\ SubscribeToHarpoonTabs(l)
    \/ \E l \in Listeners : isInitialized /\ UnsubscribeFromHarpoonTabs(l)
    \/ \E op \in ListenTabOps :
          isInitialized /\ issued <= MaxOverlapCalls /\ UpdateTabHistory(op)
    \/ \E op \in ListenHarpoonOps :
          isInitialized /\ issued <= MaxOverlapCalls /\ UpdateHarpoonTabs(op)
    \/ \E i \in 1..Len(calls) : StorageWriteOk(i)
    \/ \E i \in 1..Len(calls) : StorageWriteFail(i)

SpecOverlap == InitOverlap /\ [][NextOverlap]_vars

\* Window and health traffic: the window manager creates, updates, focuses
\* and removes window states and the recovery code records health, a
\* second call possibly while the first one's write is pending.
WindowOps ==
    {WOp("create", w, TRUE, NoWPartial) : w \in WindowIds}
    \cup {WOp("create", 1, FALSE, NoWPartial), WOp("update", 1, FALSE, NoWPartial)}
    \cup {WOp("update", w, TRUE, WPartial({"activeTabId"}, FALSE, 0, 1)) : w \in WindowIds}
    \cup {WOp("remove", w, FALSE, NoWPartial) : w \in WindowIds}
    \cup {WOp("focus", w, FALSE, NoWPartial) : w \in WindowIds}
HealthOps ==
    {HOp(HPartial({"errorCount"}, 1, 0, 0)), HOp(HPartial({"lastHealthCheck"}, 0, 1, 0))}

InitWindow ==
    /\ Constructed
    /\ store = SeedStore
    /\ present = SeedKeys

NextWindow ==
    \/ issued = 0 /\ Initialize
    \/ \E i \in 1..Len(calls) : InitReadOk(i)
    \/ \E op \in WindowOps :
          isInitialized /\ issued <= MaxOverlapCalls /\ UpdateWindowState(op)
    \/ \E op \in HealthOps :
          isInitialized /\ issued <= MaxOverlapCalls /\ UpdateSystemHealth(op)
    \/ \E i \in 1..Len(calls) : StorageWriteOk(i)
    \/ \E i \in 1..Len(calls) : StorageWriteFail(i)
    \/ Tick

SpecWindow == InitWindow /\ [][NextWindow]_vars

\* Start-up: the store holds what earlier versions of the extension left
\* (a legacy flat harpoon list, and partitioned harpoon data that is
\* absent, empty or filled); initialize() is called by the service worker
\* and again by whoever needs the manager, and an update method called
\* before initialisation runs initialize() itself.  Reads and writes of
\* the start-up may fail.
StartupOps == {Op("add", 0, TRUE, Tab(MaxTabId, MaxWindowId, "u", "t"), 0, FALSE, <<>>)}

StoreLeftBy(legacy, partitioned) ==
    [SeedStore EXCEPT !.harpoonHistory = legacy,
                      !.harpoonWindows = IF partitioned = "filled"
                                         THEN SeedStore.harpoonWindows ELSE EmptyMap]
KeysLeftBy(legacy, partitioned) ==
    (SeedKeys \ (IF partitioned = "absent" THEN {"harpoonWindows"} ELSE {}))
    \cup (IF legacy # <<>> THEN {"harpoonHistory"} ELSE {})

InitStartup ==
    /\ Constructed
    /\ \E legacy \in {<<>>, <<TabD, TabA>>}, partitioned \in {"absent", "empty", "filled"} :
          /\ store = StoreLeftBy(legacy, partitioned)
          /\ present = KeysLeftBy(legacy, partitioned)

NextStartup ==
    \/ issued < MaxInitCalls /\ Initialize
    \/ \E op \in StartupOps : issued < MaxInitCalls /\ UpdateTabHistory(op)
    \/ \E i \in 1..Len(calls) : InitReadOk(i)
    \/ \E i \in 1..Len(calls) : InitReadFail(i)
    \/ \E i \in 1..Len(calls) : InitWriteOk(i)
    \/ \E i \in 1..Len(calls) : InitWriteFail(i)
    \/ \E i \in 1..Len(calls) : StorageWriteOk(i)
    \/ \E i \in 1..Len(calls) : StorageWriteFail(i)

SpecStartup == InitStartup /\ [][NextStartup]_vars

\* Migration: the same start-up over every legacy list of distinct tabs up
\* to MaxLegacy long.
LegacyLists ==
    {s \in UNION {[1..n -> BaseTabs] : n \in 0..MaxLegacy} :
        \A j, k \in DOMAIN s : j # k => s[j].id # s[k].id}

InitMigrate ==
    /\ Constructed
    /\ \E legacy \in LegacyLists, partitioned \in {"absent", "empty", "filled"} :
          /\ store = StoreLeftBy(legacy, partitioned)
          /\ present = KeysLeftBy(legacy, partitioned)

NextMigrate ==
    \/ issued < MaxMigrateCalls /\ Initialize
    \/ \E op \in StartupOps : issued < MaxMigrateCalls /\ UpdateTabHistory(op)
    \/ \E i \in 1..Len(calls) : InitReadOk(i)
    \/ \E i \in 1..Len(calls) : InitReadFail(i)
    \/ \E i \in 1..Len(calls) : InitWriteOk(i)
    \/ \E i \in 1..Len(calls) : InitWriteFail(i)
    \/ \E i \in 1..Len(calls) : StorageWriteOk(i)
    \/ \E i \in 1..Len(calls) : StorageWriteFail(i)

SpecMigrate == InitMigrate /\ [][NextMigrate]_vars

\* Traffic over a store in which every id occurs once: a history of two
\* tabs and one harpoon partition, then updateTabHistory and
\* updateHarpoonTabs calls as in SpecTabs, up to MaxOverlapCalls of them.
UniqueStore == [EmptyStore EXCEPT !.tabHistory = <<TabD, TabA>>,
                                  !.harpoonWindows = MapSet(EmptyMap, 1, <<TabA, TabB>>)]

InitUnique ==
    /\ Constructed
    /\ store = UniqueStore
    /\ present = SeedKeys

NextUnique ==
    \/ issued = 0 /\ Initialize
    \/ \E i \in 1..Len(calls) : InitReadOk(i)
    \/ \E op \in TabHistoryOps :
          isInitialized /\ issued <= MaxOverlapCalls /\ UpdateTabHistory(op)
    \/ \E op \in HarpoonOps :
          isInitialized /\ issued <= MaxOverlapCalls /\ UpdateHarpoonTabs(op)
    \/ \E i \in 1..Len(calls) : StorageWriteOk(i)
    \/ \E i \in 1..Len(calls) : StorageWriteFail(i)

SpecUnique == InitUnique /\ [][NextUnique]_vars

\* Harpoon limit: the HarpoonManager singleton is constructed at module
\* load (its listener subscribes), the service worker initializes the
\* StateManager, and then setMaxHarpoonTabs and addTabToHarpoon calls
\* arrive from the message handlers, a later one possibly while an earlier
\* one is suspended.
InitLimit ==
    /\ Constructed
    /\ store = SeedStore
    /\ present = SeedKeys

NextLimit ==
    \/ issued = 0 /\ harpoonTabsListeners = <<>> /\ SubscribeToHarpoonTabs(HarpoonManagerListener)
    \/ issued = 0 /\ harpoonTabsListeners # <<>> /\ Initialize
    \/ \E i \in 1..Len(calls) : InitReadOk(i)
    \/ \E max \in 0..MaxLimit : isInitialized /\ issued <= MaxLimitCalls /\ SetMaxHarpoonTabs(max)
    \/ \E tabId \in TabIds : isInitialized /\ issued <= MaxLimitCalls /\ AddTabToHarpoon(tabId)
    \/ \E i \in 1..Len(calls) : \E chromeTab \in TabPool \cup {NoTab} :
          GetChromeTabAnswers(i, chromeTab)
    \/ \E i \in 1..Len(calls) : GetScreenshotSettles(i)
    \/ \E i \in 1..Len(calls) : AddWriteOk(i)
    \/ \E i \in 1..Len(calls) : AddWriteFail(i)
    \/ \E i \in 1..Len(calls) : EnforceWriteOk(i)
    \/ \E i \in 1..Len(calls) : EnforceWriteFail(i)
    \/ \E i \in 1..Len(calls) : StorageWriteOk(i)
    \/ \E i \in 1..Len(calls) : StorageWriteFail(i)

SpecLimit == InitLimit /\ [][NextLimit]_vars

\* The same traffic with room for a setMaxHarpoonTabs and two
\* addTabToHarpoon calls that overlap.
InitLimitRace ==
    /\ Constructed
    /\ store = SeedStore
    /\ present = SeedKeys

NextLimitRace ==
    \/ issued = 0 /\ harpoonTabsListeners = <<>> /\ SubscribeToHarpoonTabs(HarpoonManagerListener)
    \/ issued = 0 /\ harpoonTabsListeners # <<>> /\ Initialize
    \/ \E i \in 1..Len(calls) : InitReadOk(i)
    \/ \E max \in 0..MaxLimit : isInitialized /\ issued <= MaxRaceCalls /\ SetMaxHarpoonTabs(max)
    \/ \E tabId \in TabIds : isInitialized /\ issued <= MaxRaceCalls /\ AddTabToHarpoon(tabId)
    \/ \E i \in 1..Len(calls) : \E chromeTab \in TabPool \cup {NoTab} :
          GetChromeTabAnswers(i, chromeTab)
    \/ \E i \in 1..Len(calls) : GetScreenshotSettles(i)
    \/ \E i \in 1..Len(calls) : AddWriteOk(i)
    \/ \E i \in 1..Len(calls) : AddWriteFail(i)
    \/ \E i \in 1..Len(calls) : EnforceWriteOk(i)
    \/ \E i \in 1..Len(calls) : EnforceWriteFail(i)
    \/ \E i \in 1..Len(calls) : StorageWriteOk(i)
    \/ \E i \in 1..Len(calls) : StorageWriteFail(i)

SpecLimitRace == InitLimitRace /\ [][NextLimitRace]_vars

\* Point-to-point sends: sendMessage calls from the managers, a later one
\* possibly while an earlier one is between attempts; the endpoint answers,
\* fails or stays silent, attempt by attempt.
SendOptions == {Options("", r) : r \in {Omitted} \cup 0..MaxRetries}

InitSend ==
    /\ Constructed
    /\ store = EmptyStore
    /\ present = {}

NextSend ==
    \/ \E tabId \in TabIds : \E options \in SendOptions :
          issued < MaxSendCalls /\ SendMessage(tabId, "tabsUpdated", options)
    \/ \E j \in 1..Len(jobs) : \E k \in 1..Len(jobs[j].sends) : \E outcome \in AttemptOutcomes :
          AttemptSettles(j, k, outcome)
    \/ \E j \in 1..Len(jobs) : \E k \in 1..Len(jobs[j].sends) : DelayElapses(j, k)

SpecSend == InitSend /\ [][NextSend]_vars

\* Point-to-point sends to an endpoint that may answer after the attempt's
\* timer has fired.
NextEndpoint ==
    \/ \E tabId \in TabIds : \E options \in SendOptions :
          issued < MaxSendCalls /\ SendMessage(tabId, "tabsUpdated", options)
    \/ \E j \in 1..Len(jobs) : \E k \in 1..Len(jobs[j].sends) : \E outcome \in EndpointOutcomes :
          AttemptSettles(j, k, outcome)
    \/ \E j \in 1..Len(jobs) : \E k \in 1..Len(jobs[j].sends) : DelayElapses(j, k)

SpecEndpoint == InitSend /\ [][NextEndpoint]_vars

\* A broadcast: one broadcastToAllTabs call (as made by notifyHarpoonChange);
\* chrome.tabs.query answers with the tabs that are open at that moment,
\* among them pages that cannot receive messages and tabs without id or url.
BroadcastOptionsIn == {Options("", 0), Options("high", 1)}

RECURSIVE OpenTabsUpTo(_)
OpenTabsUpTo(n) ==
    IF n = 0 THEN {<<>>, <<ChromeTab(0, "https://a", 1)>>}
    ELSE LET fewer == OpenTabsUpTo(n - 1)
         IN fewer \cup {Append(tabs, ChromeTab(n, u, 1)) : tabs \in fewer, u \in Urls}
OpenTabs == OpenTabsUpTo(MaxTabId)

InitBroadcast ==
    /\ Constructed
    /\ store = EmptyStore
    /\ present = {}

NextBroadcast ==
    \/ \E options \in BroadcastOptionsIn :
          issued = 0 /\ BroadcastToAllTabs("harpoonChanged", options)
    \/ \E j \in 1..Len(jobs) : \E tabs \in OpenTabs : QueryAnswers(j, tabs)
    \/ \E j \in 1..Len(jobs) : \E k \in 1..Len(jobs[j].sends) : \E outcome \in AttemptOutcomes :
          AttemptSettles(j, k, outcome)
    \/ \E j \in 1..Len(jobs) : \E k \in 1..Len(jobs[j].sends) : DelayElapses(j, k)

SpecBroadcast == InitBroadcast /\ [][NextBroadcast]_vars

\* Transactions: a caller begins a transaction, buffers messages for a
\* tab, a window, all tabs or (target left empty) nobody, and commits or
\* rolls back; it keeps the MessageTransaction object and may call again
\* while a commit is still sending.
TxTargets ==
    {Queued(NoMessage, 1, 0, FALSE), Queued(NoMessage, 0, 1, FALSE),
     Queued(NoMessage, 0, 0, TRUE), Queued(NoMessage, 0, 0, FALSE)}
TxOpenTabs == OpenTabsUpTo(1)
TxOutcomes == {"response", "lastError"}

InitTx ==
    /\ Constructed
    /\ store = EmptyStore
    /\ present = {}

NextTx ==
    \/ Len(txs) < MaxTxs /\ issued < MaxTxCalls /\ BeginTransaction
    \/ \E h \in 1..Len(txs) : \E target \in TxTargets :
          /\ issued < MaxTxCalls /\ Len(txs[h].messages) < MaxMessages
          /\ AddToTransaction(h, "tabsUpdated", target, Options("", 1))
    \/ \E h \in 1..Len(txs) : issued < MaxTxCalls /\ CommitTransaction(h)
    \/ \E h \in 1..Len(txs) : issued < MaxTxCalls /\ RollbackTransaction(h)
    \/ \E j \in 1..Len(jobs) : \E tabs \in TxOpenTabs : QueryAnswers(j, tabs)
    \/ \E j \in 1..Len(jobs) : \E k \in 1..Len(jobs[j].sends) : \E outcome \in TxOutcomes :
          AttemptSettles(j, k, outcome)
    \/ \E j \in 1..Len(jobs) : \E k \in 1..Len(jobs[j].sends) : DelayElapses(j, k)

SpecTx == InitTx /\ [][NextTx]_vars

\* withTransaction: callers run functions in transactions; a function
\* adds messages to its transaction and may roll it back itself before
\* it resolves or throws; the tab queries and the sends settle or throw.
FnOutcomes == {"resolves", "throws"}
NextWith ==
    \/ Len(txs) < MaxTxs /\ issued < MaxWithCalls /\ WithTransaction
    \/ \E h \in InFn : \E target \in TxTargets :
          /\ issued < MaxWithCalls /\ Len(txs[h].messages) < MaxMessages
          /\ AddToTransaction(h, "tabsUpdated", target, Options("", 1))
    \/ \E h \in InFn : issued < MaxWithCalls /\ RollbackTransaction(h)
    \/ \E j \in 1..Len(jobs) : \E outcome \in FnOutcomes : FnSettles(j, outcome)
    \/ \E j \in 1..Len(jobs) : \E tabs \in TxOpenTabs : QueryAnswers(j, tabs)
    \/ \E j \in 1..Len(jobs) : QueryThrows(j)
    \/ \E j \in 1..Len(jobs) : \E k \in 1..Len(jobs[j].sends) : \E outcome \in TxOutcomes :
          AttemptSettles(j, k, outcome)
    \/ \E j \in 1..Len(jobs) : \E k \in 1..Len(jobs[j].sends) : DelayElapses(j, k)

SpecWith == InitTx /\ [][NextWith]_vars

\* The message queue: callers enqueue messages of the three priorities for
\* a tab or for all tabs (the caller builds the Message; its id is fresh),
\* the interval timer runs, the tab queries and the sends settle.
Priorities == {"high", "medium", "low"}
QueueOutcomes == {"response", "lastError"}
InitQueue == /\ Constructed /\ store = EmptyStore /\ present = {}
NextQueue ==
    \/ \E priority \in Priorities : \E broadcast \in BOOLEAN :
          /\ issued < MaxQueueCalls
          /\ EnqueueMessage([id |-> issued + 1, type |-> "tabsUpdated",
                              priority |-> priority, maxRetries |-> 1],
                            IF broadcast THEN 0 ELSE 1, 0, broadcast)
    \/ QueueProcessorTick
    \/ \E j \in 1..Len(jobs) : \E tabs \in TxOpenTabs : QueryAnswers(j, tabs)
    \/ \E j \in 1..Len(jobs) : \E k \in 1..Len(jobs[j].sends) : \E outcome \in QueueOutcomes :
          AttemptSettles(j, k, outcome)
    \/ \E j \in 1..Len(jobs) : \E k \in 1..Len(jobs[j].sends) : DelayElapses(j, k)
SpecQueue == InitQueue /\ [][NextQueue]_vars

\* The active-transaction table: transactions are begun and never ended,
\* and more than ten minutes may pass at any point.
TenMinutesPass ==
    /\ now <= TenMinutes
    /\ now' = now + TenMinutes + 1
    /\ UNCHANGED <<peerVars, memVars, listenerVars, storeVars, callVars, readLog, writeLog>>
InitCap == /\ Constructed /\ store = EmptyStore /\ present = {}
NextCap ==
    \/ issued < MaxCapCalls /\ BeginTransaction
    \/ TenMinutesPass
SpecCap == InitCap /\ [][NextCap]_vars

\* The full queue: callers enqueue messages for tab 1 while the delivery of
\* the first one is pending, until the queue has overflowed; then the
\* deliveries settle.  The priority is drawn for the first messages and
\* for those enqueued on the full queue.
FullPriorities(n) == IF n \in 4..MaxQueueSize THEN {"low"} ELSE Priorities
InitFull == /\ Constructed /\ store = EmptyStore /\ present = {}
NextFull ==
    \/ \E priority \in FullPriorities(issued + 1) :
          /\ issued < MaxFullCalls
          /\ EnqueueMessage([id |-> issued + 1, type |-> "tabsUpdated",
                              priority |-> priority, maxRetries |-> 1], 1, 0, FALSE)
    \/ \E j \in 1..Len(jobs) : \E k \in 1..Len(jobs[j].sends) :
          issued >= MaxFullCalls /\ AttemptSettles(j, k, "response")
SpecFull == InitFull /\ [][NextFull]_vars

(* ======================================================================= *)
(*                               Properties                                *)
(* ======================================================================= *)
MismatchError == "Tab window ID does not match operation window ID"

\* The activation that entered in this step (the newest pending one).
Entered == Len(calls') = Len(calls) + 1
NewestCall == calls'[Len(calls')]

NoDuplicateIds(s) == Len(s) = Cardinality(Ids(s))
PartitionOf(hw, w) == IF w \in DOMAIN hw THEN hw[w] ELSE <<>>

\* C1: in every state reached by updateHarpoonTabs operations on an
\* initialized manager, every tab stored in the harpoon partition of window
\* w has windowId = w.
C1_PartitionMatchesWindow ==
    \A w \in DOMAIN harpoonWindowsState :
        \A k \in 1..Len(harpoonWindowsState[w]) : harpoonWindowsState[w][k].windowId = w

\* C1 witness: an operation with a tab of another window has been rejected
\* and the partitions, changed since they were loaded, are not empty.
C1_Witness ==
    /\ last.fn = "updateHarpoonTabs" /\ last.err = MismatchError
    /\ DOMAIN harpoonWindowsState # {}
    /\ harpoonWindowsState # SeedStore.harpoonWindows

\* C2: a partition built by add / remove / update holds exactly the ids
\* added and not since removed, each once; an accepted add leaves its tab
\* last and adds its id, a remove takes its id away, an update changes
\* neither the ids nor the length, and each of them leaves the partitions
\* of the other windows as they were.
C2_ExactlyAddedMinusRemoved ==
    \A w \in WindowIds :
        expected[w].pure =>
            /\ Ids(getHarpoonTabsForWindow(w)) = expected[w].ids
            /\ NoDuplicateIds(getHarpoonTabsForWindow(w))

C2_StepEffect ==
    (Entered /\ NewestCall.fn = "updateHarpoonTabs" /\ NewestCall.accepted
        /\ NewestCall.op.type \in {"add", "remove", "update"}) =>
    LET op == NewestCall.op
        w == op.windowId
        before == PartitionOf(harpoonWindowsState, w)
        after == PartitionOf(harpoonWindowsState', w)
    IN /\ \A x \in WindowIds \ {w} :
              PartitionOf(harpoonWindowsState', x) = PartitionOf(harpoonWindowsState, x)
       /\ op.type = "add" =>
              /\ Ids(after) = Ids(before) \cup {op.tab.id}
              /\ after[Len(after)] = op.tab
              /\ FilterOutId(after, op.tab.id) = FilterOutId(before, op.tab.id)
       /\ op.type = "remove" => Ids(after) = Ids(before) \ {op.tabId}
       /\ op.type = "update" =>
              /\ Ids(after) = Ids(before) /\ Len(after) = Len(before)
              /\ \A k \in 1..Len(after) :
                    after[k] = IF before[k].id = op.tab.id THEN op.tab ELSE before[k]

C2_Theorem == []C2_ExactlyAddedMinusRemoved /\ [][C2_StepEffect]_vars

\* C2 witness: window 1 holds tab 1 after tab 2 (tab 1 was added again, or
\* removed and added), each once, and window 2 still holds its tab.
C2_Witness ==
    /\ expected[1].pure
    /\ Len(getHarpoonTabsForWindow(1)) = 2
    /\ getHarpoonTabsForWindow(1)[1].id = 2
    /\ getHarpoonTabsForWindow(1)[2].id = 1
    /\ getHarpoonTabsForWindow(2) = <<TabC>>

\* What the claims call a validation failure, stated on the operation and
\* the slice it is applied to.
SomeFalsy(tabs) == \E k \in 1..Len(tabs) : TabIsFalsy(tabs[k])

TabHistoryInvalid(op, state) ==
    CASE op.type = "add" -> ~op.hasTab \/ TabIsFalsy(op.tab)
      [] op.type = "update" ->
           ~op.hasTab \/ (TabIsFalsy(op.tab) /\ op.tab.id \in Ids(state))
      [] op.type = "remove" -> op.tabId = 0
      [] op.type = "reorder" -> ~op.hasTabs \/ SomeFalsy(op.tabs)
      [] OTHER -> TRUE

HarpoonInvalid(op, partition) ==
    CASE op.type = "add" ->
           ~op.hasTab \/ op.tab.windowId # op.windowId \/ TabIsFalsy(op.tab)
      [] op.type = "update" ->
           \/ ~op.hasTab \/ op.tab.windowId # op.windowId
           \/ (TabIsFalsy(op.tab) /\ op.tab.id \in Ids(partition))
      [] op.type = "remove" -> op.tabId = 0
      [] op.type = "reorder" ->
           \/ ~op.hasTabs \/ SomeFalsy(op.tabs)
           \/ \E k \in 1..Len(op.tabs) : op.tabs[k].windowId # op.windowId
      [] op.type = "clear" -> FALSE
      [] OTHER -> TRUE

IsTabCall(c) == c.fn \in {"updateTabHistory", "updateHarpoonTabs"}

\* C3: an updateTabHistory / updateHarpoonTabs call that fails validation
\* throws and leaves the in-memory slices as they were, issues no storage
\* write and invokes no listener; and every operation the claim lists as
\* invalid does fail.
C3_InvalidIsRejected ==
    isInitialized =>
    /\ \A op \in TabHistoryOps :
          TabHistoryInvalid(op, tabHistoryState) =>
              LET r == updateTabHistorySync(Mem, NewCall("updateTabHistory", op))
              IN r.call.pc = "rejected" /\ r.m = Mem /\ r.wrote = ""
    /\ \A op \in HarpoonOps :
          HarpoonInvalid(op, getHarpoonTabsForWindow(op.windowId)) =>
              LET r == updateHarpoonTabsSync(Mem, NewCall("updateHarpoonTabs", op))
              IN r.call.pc = "rejected" /\ r.m = Mem /\ r.wrote = ""

\* A call that settles in the step it is made: it threw in its
\* synchronous phase.
ThrewSynchronously ==
    /\ issued' = issued + 1 /\ calls' = calls
    /\ IsTabCall(last') /\ last'.pc = "rejected"

C3_RejectionChangesNothing ==
    ThrewSynchronously =>
        /\ UNCHANGED <<memVars, storeVars, writeLog>>
        /\ last'.notified = <<>>
        /\ last'.err \notin {"", "storage"}

C3_Theorem == []C3_InvalidIsRejected /\ [][C3_RejectionChangesNothing]_vars

\* C3 witness: a listener is subscribed and an update of the tab history
\* has just been rejected for an invalid resulting tab.
C3_Witness ==
    /\ tabHistoryListeners # <<>>
    /\ last.fn = "updateTabHistory" /\ last.pc = "rejected"
    /\ last.err = "Invalid tab in history"

\* C4: when updateTabHistory / updateHarpoonTabs suspends at its storage
\* write, the getters already return the value that write carries, the
\* store does not hold it through this call yet, and the settling of a
\* write changes neither slice.
C4_VisibleAtSuspension ==
    (isInitialized /\ Entered /\ IsTabCall(NewestCall) /\ NewestCall.pc = "awaitWrite") =>
        /\ UNCHANGED storeVars
        /\ NewestCall.fn = "updateTabHistory" =>
              /\ tabHistoryState' = NewestCall.newTabs
              /\ tabHistoryState' =
                    applyTabHistoryOperation(tabHistoryState, NewestCall.op).val
              /\ \A w \in WindowIds :
                    SelectSeq(tabHistoryState', LAMBDA t : t.windowId = w)
                      = SelectSeq(NewestCall.newTabs, LAMBDA t : t.windowId = w)
        /\ NewestCall.fn = "updateHarpoonTabs" =>
              /\ harpoonWindowsState' = NewestCall.newWindows
              /\ Flat(harpoonWindowsState') = Flat(NewestCall.newWindows)
              /\ PartitionOf(harpoonWindowsState', NewestCall.op.windowId) =
                    applyHarpoonOperationToWindow(
                        PartitionOf(harpoonWindowsState, NewestCall.op.windowId),
                        NewestCall.op).val

Settles(i) ==
    /\ i \in 1..Len(calls) /\ calls[i].pc = "awaitWrite" /\ IsTabCall(calls[i])
    /\ Len(calls') = Len(calls) - 1 /\ calls' = RemoveAt(calls, i)
    /\ last'.fn = calls[i].fn

C4_SettlingKeepsSlices ==
    (\E i \in 1..Len(calls) : Settles(i)) =>
        UNCHANGED <<tabHistoryState, harpoonWindowsState>>

C4_Theorem == [][C4_VisibleAtSuspension]_vars /\ [][C4_SettlingKeepsSlices]_vars

\* C4 witness: an updateTabHistory write is pending, getTabHistory returns
\* its new value and the store still holds the old one.
C4_Witness ==
    /\ Len(calls) = 1 /\ calls[1].fn = "updateTabHistory" /\ calls[1].pc = "awaitWrite"
    /\ getTabHistory = calls[1].newTabs
    /\ store.tabHistory # calls[1].newTabs

\* C6: when the storage write of updateTabHistory / updateHarpoonTabs
\* fails, the call rejects with the storage error and the slices keep
\* their value; a call resolves only when the store holds its value.
C6_FailedWrite ==
    \A i \in 1..Len(calls) :
        Settles(i) =>
            /\ last'.pc = "rejected" =>
                  /\ last'.err = "storage"
                  /\ UNCHANGED <<tabHistoryState, harpoonWindowsState>>
            /\ last'.pc = "resolved" =>
                  IF calls[i].fn = "updateTabHistory"
                  THEN store'.tabHistory = calls[i].newTabs /\ "tabHistory" \in present'
                  ELSE store'.harpoonWindows = calls[i].newWindows
                       /\ "harpoonWindows" \in present'

C6_Theorem == [][C6_FailedWrite]_vars

\* C6 witness: an updateTabHistory call has rejected with the storage
\* error, the store holds the old history and getTabHistory another one.
C6_Witness ==
    /\ last.fn = "updateTabHistory" /\ last.pc = "rejected" /\ last.err = "storage"
    /\ calls = <<>>
    /\ store.tabHistory = SeedStore.tabHistory
    /\ tabHistoryState # store.tabHistory

\* The listener Set a method notifies.
ListenersOf(fn) ==
    CASE fn = "updateTabHistory" -> tabHistoryListeners
      [] fn = "updateHarpoonTabs" -> harpoonTabsListeners
      [] fn = "updateWindowState" -> windowStatesListeners
      [] OTHER -> systemHealthListeners

\* C7: when an update notifies its listeners, every listener subscribed
\* to the slice is invoked, those after a throwing one included, and the
\* update call resolves.
C7_ThrowingListenerIsolated ==
    \A i \in 1..Len(calls) :
        (Settles(i) /\ last'.err # "storage") =>
            /\ last'.pc = "resolved"
            /\ last'.notified = ListenersOf(calls[i].fn)

C7_Theorem == [][C7_ThrowingListenerIsolated]_vars

\* C7 witness: an updateTabHistory call resolved after notifying the
\* throwing listener 1 and then listener 2.
C7_Witness ==
    /\ last.fn = "updateTabHistory" /\ last.pc = "resolved"
    /\ ListenerThrows(1)
    /\ last.notified = <<1, 2>>

\* C8: an update that completes successfully invokes each subscribed
\* listener exactly once with previousState the slice just before the
\* operation and newState the slice the operation produced, whatever other
\* update of the slice started while its write was pending.
C8_ListenerArguments ==
    \A i \in 1..Len(calls) :
        (Settles(i) /\ last'.pc = "resolved" /\ ListenersOf(calls[i].fn) # <<>>) =>
            /\ last'.notified = ListenersOf(calls[i].fn)
            /\ last'.notifyPrevTabs = calls[i].prevTabs
            /\ last'.notifyNewTabs = IF calls[i].fn = "updateTabHistory"
                                     THEN calls[i].newTabs
                                     ELSE Flat(calls[i].newWindows)

C8_Claim == [][C8_ListenerArguments]_vars

\* The pending activation i of fn resolves in this step.
Resolves(i, fn) ==
    /\ i \in 1..Len(calls) /\ calls[i].pc = "awaitWrite" /\ calls[i].fn = fn
    /\ calls' = RemoveAt(calls, i)
    /\ last'.fn = fn /\ last'.pc = "resolved"

HealthFields == {"version", "lastCleanup", "errorCount", "lastHealthCheck"}

\* C5: an update that overlaps a pending one does not undo it.  The
\* completion of a 'create' leaves every window already in the slice in
\* it, and the completion of an updateSystemHealth leaves every field it
\* did not set as it was, so that two overlapping updates are both in the
\* slice once both have completed.
C5_CompletionKeepsOthers ==
    \A i \in 1..Len(calls) :
        /\ (Resolves(i, "updateWindowState") /\ calls[i].op.type = "create") =>
              DOMAIN windowStatesState \subseteq DOMAIN windowStatesState'
        /\ Resolves(i, "updateSystemHealth") =>
              \A f \in HealthFields \ calls[i].op.updates.has :
                  systemHealthState'[f] = systemHealthState[f]

C5_NoLostUpdate == [][C5_CompletionKeepsOthers]_vars

\* This step is a call of initialize().
InitializeCalled ==
    /\ issued' = issued + 1
    /\ \/ calls' = calls /\ last'.fn = "initialize"
       \/ Entered /\ NewestCall.fn = "initialize"

\* C9: once initialize() has completed successfully, a later call of it
\* returns at once: it reads nothing, writes nothing and changes no slice;
\* a successful call leaves the manager initialised, and the one run of the
\* body read each of the five keys exactly once.
C9_LaterCallDoesNothing ==
    (isInitialized /\ InitializeCalled) =>
        /\ calls' = calls
        /\ last'.pc = "resolved" /\ ~last'.ranInit
        /\ UNCHANGED <<memVars, storeVars, readLog, writeLog>>

C9_CompletedMeansInitialized ==
    (last.fn = "initialize" /\ last.pc = "resolved") => isInitialized

C9_EachKeyReadOnce ==
    (isInitialized /\ readLog["tabHistory"] = 1) => \A k \in StorageKeys : readLog[k] = 1

CompletesInitialize(i) ==
    /\ i \in 1..Len(calls)
    /\ calls[i].pc \in {"readSystemHealth", "writeHarpoonHistory"}
    /\ isInitialized'
    /\ \/ calls' = RemoveAt(calls, i) /\ last'.fn = calls[i].fn /\ last'.err # "storage"
       \/ Len(calls') = Len(calls) /\ calls'[i].pc = "awaitWrite"

WindowsOf(tabs) == {tabs[k].windowId : k \in 1..Len(tabs)}

\* C10: initialize() given a legacy flat list spanning K windows and no
\* partitioned data ends with K partitions in memory and under
\* 'harpoonWindows', partition w holding the legacy tabs of window w in
\* their legacy order, and with the legacy key written empty; given
\* partitioned data it migrates nothing and leaves the store as it is.
C10_Migration ==
    \A i \in 1..Len(calls) :
        CompletesInitialize(i) =>
            LET legacy == calls[i].legacyHarpoonTabs
                partitioned == calls[i].harpoonWindows
            IN /\ (Len(legacy) > 0 /\ DOMAIN partitioned = {}) =>
                     /\ calls[i].pc = "writeHarpoonHistory"
                     /\ DOMAIN harpoonWindowsState' = WindowsOf(legacy)
                     /\ Cardinality(DOMAIN harpoonWindowsState') = Cardinality(WindowsOf(legacy))
                     /\ \A w \in WindowsOf(legacy) :
                           harpoonWindowsState'[w] =
                               SelectSeq(legacy, LAMBDA t : t.windowId = w)
                     /\ store'.harpoonWindows = harpoonWindowsState'
                     /\ "harpoonWindows" \in present'
                     /\ store'.harpoonHistory = <<>> /\ "harpoonHistory" \in present'
                     /\ harpoonTabsState' = <<>>
               /\ DOMAIN partitioned # {} =>
                     /\ calls[i].pc = "readSystemHealth"
                     /\ harpoonWindowsState' = partitioned
                     /\ store'.harpoonWindows = store.harpoonWindows
                     /\ store'.harpoonHistory = store.harpoonHistory
                     /\ calls[i].migratedHarpoonWindows = EmptyMap
                     /\ writeLog'["harpoonWindows"] = writeLog["harpoonWindows"]
                     /\ writeLog'["harpoonHistory"] = writeLog["harpoonHistory"]

C10_Theorem == [][C10_Migration]_vars

\* C10 witness: a legacy list spanning two windows has been migrated.
C10_Witness ==
    /\ isInitialized
    /\ writeLog["harpoonWindows"] = 1 /\ writeLog["harpoonHistory"] = 1
    /\ Cardinality(DOMAIN harpoonWindowsState) = 2
    /\ store.harpoonWindows = harpoonWindowsState
    /\ store.harpoonHistory = <<>>

\* The activation i leaves initialize() in this step without having
\* initialised the manager, or with the storage error.
FailsInitialize(i) ==
    /\ i \in 1..Len(calls)
    /\ calls[i].pc \in ReadPcs \cup InitWritePcs
    /\ calls' = RemoveAt(calls, i) /\ last'.fn = calls[i].fn
    /\ last'.err = "storage" \/ ~isInitialized'

\* C11: when a read or a migration write of initialize() fails, the call
\* rejects with the storage error and no field of the manager changes; an
\* uninitialised manager holds the slices it was constructed with; and
\* initialize() called on an uninitialised manager reads the store again.
C11_FailureChangesNothing ==
    \A i \in 1..Len(calls) :
        FailsInitialize(i) =>
            /\ last'.pc = "rejected" /\ last'.err = "storage"
            /\ UNCHANGED memVars

C11_NoPartialState ==
    ~isInitialized =>
        /\ tabHistoryState = <<>> /\ harpoonTabsState = <<>>
        /\ harpoonWindowsState = EmptyMap /\ windowStatesState = EmptyMap
        /\ systemHealthState = DefaultHealth

C11_LaterCallReadsAgain ==
    (~isInitialized /\ InitializeCalled) =>
        /\ Entered /\ NewestCall.pc = "readTabHistory" /\ NewestCall.ranInit
        /\ readLog'["tabHistory"] = readLog["tabHistory"] + 1

C11_Theorem ==
    /\ []C11_NoPartialState
    /\ [][C11_FailureChangesNothing]_vars
    /\ [][C11_LaterCallReadsAgain]_vars

\* C11 witness: the first initialize() has rejected at its third read, the
\* manager is uninitialised and a second initialize() is reading again.
C11_Witness ==
    /\ last.fn = "initialize" /\ last.pc = "rejected" /\ last.err = "storage"
    /\ ~isInitialized /\ tabHistoryState = <<>>
    /\ readLog["tabHistory"] = 2 /\ readLog["harpoonWindows"] = 1
    /\ readLog["windowStates"] = 0
    /\ Len(calls) = 1 /\ calls[1].fn = "initialize"

\* The entries of s that belong to window w, in the order of s.
RECURSIVE OfWindow(_, _)
OfWindow(s, w) ==
    IF s = <<>> THEN <<>>
    ELSE IF Head(s).windowId = w THEN <<Head(s)>> \o OfWindow(Tail(s), w)
    ELSE OfWindow(Tail(s), w)

\* s without the entries whose id is i, in the order of s.
RECURSIVE WithoutId(_, _)
WithoutId(s, i) ==
    IF s = <<>> THEN <<>>
    ELSE IF Head(s).id = i THEN WithoutId(Tail(s), i)
    ELSE <<Head(s)>> \o WithoutId(Tail(s), i)

\* C12: an accepted updateTabHistory add(t) leaves t at the head, no other
\* entry with t's id, and the other entries in their order; an accepted
\* remove(id) deletes the entries with that id and nothing else; and
\* getTabHistoryForWindow(w) is the history's entries of window w in the
\* history's order.
C12_AddAndRemove ==
    (isInitialized /\ Entered /\ NewestCall.fn = "updateTabHistory" /\ NewestCall.accepted) =>
        LET op == NewestCall.op
            before == tabHistoryState
            after == tabHistoryState'
        IN /\ op.type = "add" =>
                 /\ after[1] = op.tab
                 /\ Tail(after) = WithoutId(before, op.tab.id)
                 /\ \A k \in 2..Len(after) : after[k].id # op.tab.id
           /\ op.type = "remove" =>
                 /\ after = WithoutId(before, op.tabId)
                 /\ Len(before) - Len(after)
                      = Cardinality({k \in 1..Len(before) : before[k].id = op.tabId})

C12_ForWindowIsSubsequence ==
    \A w \in WindowIds : getTabHistoryForWindow(w) = OfWindow(getTabHistory, w)

C12_Theorem == []C12_ForWindowIsSubsequence /\ [][C12_AddAndRemove]_vars

\* C12 witness: tab A, last in the loaded history, has been added again
\* and is now at the head, before D, once; window 1 sees A alone.
C12_Witness ==
    /\ Len(calls) = 1 /\ calls[1].fn = "updateTabHistory" /\ calls[1].op.type = "add"
    /\ calls[1].prevTabs = <<TabD, TabA>>
    /\ getTabHistory = <<TabA, TabD>>
    /\ getTabHistoryForWindow(1) = <<TabA>>

CompletesAdd(i) ==
    /\ i \in 1..Len(calls) /\ calls[i].fn = "addTabToHarpoon"
    /\ calls[i].pc \in {"awaitAddWrite", "awaitEnforceWrite"}
    /\ \/ calls' = RemoveAt(calls, i)
       \/ /\ Len(calls') = Len(calls)
          /\ SubSeq(calls', 1, Len(calls) - 1) = RemoveAt(calls, i)
          /\ calls'[Len(calls')].fn = "updateSystemHealth"
    /\ last'.fn = "addTabToHarpoon" /\ last'.pc = "resolved"

\* C14 (first half): when an addTabToHarpoon call completes, the harpoon
\* partition of the window it added to has at most maxHarpoonTabs entries.
C14_CompletedAddWithinLimit ==
    \A i \in 1..Len(calls) :
        CompletesAdd(i) =>
            Len(PartitionOf(harpoonWindowsState', calls[i].op.windowId)) <= maxHarpoonTabs'

\* The write of the add issued by the addTabToHarpoon activation at
\* position i completes in this step, and the activation goes on into its
\* enforcement: it suspends at the enforcement's write or completes.
AddWritten(i) ==
    /\ i \in 1..Len(calls) /\ calls[i].fn = "addTabToHarpoon"
    /\ calls[i].pc = "awaitAddWrite"
    /\ \/ CompletesAdd(i)
       \/ /\ Len(calls') >= Len(calls)
          /\ \A k \in 1..Len(calls) : k # i => calls'[k] = calls[k]
          /\ calls'[i].pc = "awaitEnforceWrite" /\ calls'[i].tabId = calls[i].tabId

\* C14 (second half): when the add of an addTabToHarpoon call has been
\* written and the partition holds count > N entries, the call's
\* enforcement leaves exactly N of them, and every removed entry has an id
\* no larger than any entry that stays.
C14_EvictsSmallestIds ==
    \A i \in 1..Len(calls) :
        LET w == calls[i].op.windowId
            before == PartitionOf(harpoonWindowsState, w)
            after == PartitionOf(harpoonWindowsState', w)
        IN (AddWritten(i) /\ Len(before) > maxHarpoonTabs)
           => /\ Len(after) = maxHarpoonTabs
              /\ Items(after) \subseteq Items(before)
              /\ \A r \in Items(before) \ Items(after) : \A k \in Items(after) : r.id <= k.id

C14_Claim == [][C14_CompletedAddWithinLimit]_vars /\ [][C14_EvictsSmallestIds]_vars

\* How a finished sendMessageWithRetry relates to what the endpoint did:
\* it ended on a response, with success, after at most maxRetries failed
\* attempts; or every one of its maxRetries + 1 attempts failed and it
\* returned a failure with an error.  (An attempt is made only after all
\* earlier ones failed: the loop returns on the first response.)
RetriedToTheEnd(send, message) ==
    /\ send.attempt <= message.maxRetries
    /\ IF send.outcome = "response"
       THEN send.result.success
       ELSE /\ send.attempt = message.maxRetries
            /\ ~send.result.success /\ send.result.error # ""

\* C15: a sendMessage never rejects; it returns success when an attempt
\* within its retries succeeds (in particular after maxRetries - 1 failed
\* attempts), and a failure result when every attempt failed, whatever the
\* failures were (timeout, lastError, or a throwing transport).
C15_SendReturnsResult ==
    /\ \A j \in 1..Len(jobs) : jobs[j].pc # "rejected"
    /\ \A j \in 1..Len(jobs) : \A k \in 1..Len(jobs[j].sends) :
          /\ jobs[j].sends[k].pc = "delay" => jobs[j].sends[k].outcome # "response"
          /\ jobs[j].sends[k].pc = "single" /\ jobs[j].sends[k].attempt > 0
                => jobs[j].sends[k].outcome # "response"
    /\ lastJob.fn = "sendMessage" =>
          /\ lastJob.pc = "resolved"
          /\ Len(lastJob.results) = 1 /\ Len(lastJob.sends) = 1
          /\ lastJob.results[1] = lastJob.sends[1].result
          /\ RetriedToTheEnd(lastJob.sends[1], lastJob.message)

\* A sendMessage with maxRetries 2 failed once, by a throwing transport,
\* and succeeded on its second attempt.
C15_Witness ==
    /\ lastJob.fn = "sendMessage" /\ lastJob.message.maxRetries = 2
    /\ lastJob.sends[1].attempt = 1 /\ lastJob.sends[1].lastError = "transport threw"
    /\ lastJob.results[1].success

\* The sends of a broadcast are those to the tabs of the query's answer
\* that pass canReceiveMessages, in the answer's order, and no
\* chrome.tabs.sendMessage call went anywhere else.
SendsMatchEligible(job) ==
    LET eligible == SelectSeq(job.queried, canReceiveMessages) IN
    /\ Len(job.sends) = Len(eligible)
    /\ \A k \in 1..Len(eligible) : job.sends[k].tabId = eligible[k].id
    /\ {t.tabId : t \in job.trace} = {eligible[k].id : k \in 1..Len(eligible)}

\* C16: a broadcastToAllTabs returns one result per tab that was eligible
\* when the tabs were enumerated, in that order; tabs that cannot receive
\* messages are not sent to; and every eligible tab gets its delivery
\* attempts (all of its retries), whatever happens to the other tabs.
C16_OneResultPerEligibleTab ==
    /\ \A j \in 1..Len(jobs) :
          jobs[j].fn = "broadcastToAllTabs" /\ jobs[j].pc = "sending" =>
             /\ SendsMatchEligible(jobs[j])
             /\ \A k \in 1..Len(jobs[j].sends) : jobs[j].sends[k].pc # "waiting"
    /\ lastJob.fn = "broadcastToAllTabs" =>
          /\ lastJob.pc = "resolved"
          /\ SendsMatchEligible(lastJob)
          /\ Len(lastJob.results) = Len(lastJob.sends)
          /\ \A k \in 1..Len(lastJob.sends) :
                /\ lastJob.results[k] = lastJob.sends[k].result
                /\ RetriedToTheEnd(lastJob.sends[k], lastJob.message)

\* A broadcast over three tabs, one of which cannot receive messages, has
\* returned two results with exactly one failure.
C16_Witness ==
    /\ lastJob.fn = "broadcastToAllTabs" /\ lastJob.pc = "resolved"
    /\ Len(lastJob.queried) = 3 /\ Len(lastJob.results) = 2
    /\ ~lastJob.results[1].success /\ lastJob.results[2].success

TxMethods == {"addToTransaction", "commitTransaction", "rollbackTransaction"}

\* This step is a call of addToTransaction, commitTransaction or
\* rollbackTransaction on the transaction h.
CalledOn(h) ==
    /\ issued' = issued + 1
    /\ \/ Len(jobs') = Len(jobs) + 1 /\ jobs'[Len(jobs')].tx = h
       \/ jobs' = jobs /\ lastJob'.tx = h /\ lastJob'.fn \in TxMethods

\* C17: a call of addToTransaction, commitTransaction or
\* rollbackTransaction on a transaction that is committed or rolled back
\* throws, leaves the buffer, the flags and the active-transaction table as
\* they were, and starts no send.
C17_TerminalCallThrows ==
    \A h \in 1..Len(txs) :
        (txs[h].committed \/ txs[h].rolledBack) /\ CalledOn(h) =>
            /\ lastJob'.pc = "rejected" /\ lastJob'.err = NoLongerActive
            /\ txs' = txs /\ activeTransactions' = activeTransactions
            /\ jobs' = jobs /\ messageCounter' = messageCounter

C17_Theorem == [][C17_TerminalCallThrows]_vars

\* An addToTransaction on a committed transaction has thrown.
C17_Witness ==
    /\ lastJob.fn = "addToTransaction" /\ lastJob.pc = "rejected"
    /\ txs[lastJob.tx].committed

\* The activation at position j as it is after this step: still pending, or
\* settled by this step.
PostJob(j) ==
    IF Len(jobs') < Len(jobs) /\ jobs' = RemoveAt(jobs, j) THEN lastJob'
    ELSE IF Len(jobs') < Len(jobs) THEN jobs[j]
    ELSE jobs'[j]

IsTabTarget(queuedMessage) ==
    ~queuedMessage.broadcast /\ queuedMessage.windowId = 0 /\ queuedMessage.tabId # 0

\* The transport calls of a commitTransaction follow the buffer: none is for
\* a position past the one the loop is at, a later position has a later
\* message, and each goes where its buffered message says.
SentInBufferOrder(job) ==
    /\ \A t \in job.trace :
          /\ t.idx \in 1..Len(txs[job.tx].messages) /\ t.idx <= job.idx
          /\ t.type = txs[job.tx].messages[t.idx].message.type
          /\ IsTabTarget(txs[job.tx].messages[t.idx]) =>
                t.tabId = txs[job.tx].messages[t.idx].tabId
    /\ \A t1, t2 \in job.trace : t1.idx < t2.idx => t1.messageId < t2.messageId

\* A commitTransaction that has returned went through the whole buffer, a
\* failed delivery or not, and returned one result per delivery.
ReturnedAll(job) ==
    /\ job.idx = Len(txs[job.tx].messages) + 1
    /\ \A i \in 1..Len(txs[job.tx].messages) :
          IsTabTarget(txs[job.tx].messages[i]) =>
              \E t \in job.trace : t.idx = i /\ t.tabId = txs[job.tx].messages[i].tabId
    /\ Len(job.results) = Cardinality(job.trace)

C18_CommitInOrder ==
    /\ \A j \in 1..Len(jobs) : jobs[j].fn = "commitTransaction" => SentInBufferOrder(jobs[j])
    /\ lastJob.fn = "commitTransaction" /\ lastJob.pc = "resolved" =>
          SentInBufferOrder(lastJob) /\ ReturnedAll(lastJob)

\* The loop goes to a later buffered message only when every send of the
\* current one has returned, and then appends their results, in the order
\* of the sends, to the results it returns; it makes calls for the message
\* it is at only.
C18_OneAtATime ==
    \A j \in 1..Len(jobs) : jobs[j].fn = "commitTransaction" =>
        LET pre == jobs[j]
            post == PostJob(j) IN
        /\ post.idx >= pre.idx
        /\ \A t \in post.trace \ pre.trace : t.idx = post.idx
        /\ post.idx = pre.idx => post.results = pre.results
        /\ post.idx > pre.idx =>
              /\ Cardinality({k \in 1..Len(pre.sends) : pre.sends[k].pc # "done"}) <= 1
              /\ Len(post.results) = Len(pre.results) + Len(pre.sends)
              /\ SubSeq(post.results, 1, Len(pre.results)) = pre.results
              /\ \A k \in 1..Len(pre.sends) : pre.sends[k].pc = "done" =>
                    post.results[Len(pre.results) + k] = pre.sends[k].result

C19_NoSendAfterRollback ==
    \A j \in 1..Len(jobs) :
        jobs[j].fn = "commitTransaction" /\ txs[jobs[j].tx].rolledBack =>
            PostJob(j).transportCalls = jobs[j].transportCalls

\* C19: no message buffered in a transaction on which rollbackTransaction
\* has succeeded is sent, however the rollback interleaves with a
\* commitTransaction of that transaction that is awaiting deliveries.
C19_Claim == [][C19_NoSendAfterRollback]_vars

MutuallyExclusive == \A h \in 1..Len(txs) : ~(txs[h].committed /\ txs[h].rolledBack)

TerminalIsFrozen ==
    \A h \in 1..Len(txs) : txs[h].committed \/ txs[h].rolledBack => txs'[h] = txs[h]

\* C20: no transaction is both committed and rolled back, and once one of
\* the flags is true neither the flags nor the buffer change again.
C20_Claim == []MutuallyExclusive /\ [][TerminalIsFrozen]_vars

\* The processQueue activations pending in a sequence of jobs.
Drains(js) == SelectSeq(js, LAMBDA job : job.fn = "processQueue")

\* This step shifts a message off the queue for delivery.
TakesFromQueue ==
    /\ Drains(jobs') # <<>>
    /\ Drains(jobs) # <<>> => Drains(jobs')[1].queuedMessage # Drains(jobs)[1].queuedMessage

\* The message taken has the highest priority of those waiting and, among
\* those of its priority, is the one enqueued first.
C21_TakesHighestPriority ==
    TakesFromQueue =>
        LET taken == Drains(jobs')[1].queuedMessage.message IN
        \A k \in 1..Len(messageQueue') :
            LET waiting == messageQueue'[k].message IN
            /\ priorityOrder(waiting.priority) <= priorityOrder(taken.priority)
            /\ waiting.priority = taken.priority => waiting.id > taken.id

\* C21: whenever the queue processor takes a message for delivery, no
\* message of strictly higher priority is waiting in the queue (FIFO among
\* equal priorities), messages enqueued during a drain included.
C21_Claim == [][C21_TakesHighestPriority]_vars

\* C22: the active-transaction table never holds more than
\* maxActiveTransactions transactions: a beginTransaction at the cap evicts
\* the oldest ones so that the cap holds with the new one inserted.
C22_TableCapped == Len(activeTransactions) <= MaxActiveTransactions

\* The retries a caller of sendMessage asked for.
RetriesAskedFor(options) ==
    IF options.maxRetries = Omitted THEN DefaultMaxRetries ELSE options.maxRetries

\* A sendMessage makes one attempt and at most the retries asked for, and
\* waits 100ms * 2^(n-1) before its n-th retry, and only before a retry.
HonoursMaxRetries(job) ==
    job.fn = "sendMessage" =>
        /\ job.transportCalls <= 1 + RetriesAskedFor(job.options)
        /\ \A k \in 1..Len(job.sends) :
              /\ job.sends[k].pc = "delay" =>
                    /\ job.sends[k].attempt < RetriesAskedFor(job.options)
                    /\ job.sends[k].delay = 100 * 2 ^ ((job.sends[k].attempt + 1) - 1)
              /\ job.sends[k].pc = "done" /\ ~job.sends[k].result.success =>
                    job.transportCalls = 1 + RetriesAskedFor(job.options)

\* C30: a sendMessage whose attempts all fail makes one attempt plus at most
\* maxRetries retries for every maxRetries >= 0 the caller passes (0: a
\* single attempt; 3 only when the option is omitted), waiting
\* 100ms * 2^(n-1) before the n-th retry and not after the last attempt.
C30_Claim ==
    /\ \A j \in 1..Len(jobs) : HonoursMaxRetries(jobs[j])
    /\ HonoursMaxRetries(lastJob)

(* ------------------ health aggregation over drawn inputs --------------- *)
\* What the seven component checks can observe, on both sides of every
\* threshold they test.
StorageCases ==
    {[info |-> "throws", usagePercent |-> 0, write |-> ""]}
        \cup {[info |-> "ok", usagePercent |-> u, write |-> wr] :
                 u \in {0, 81, 96}, wr \in WriteOutcomes}
TabHistoryLengths == {0, 1, 1001}
HarpoonLengths == {0, 101}
QueueSizes == {0, 101}
WindowInfoLengths == {0, 1}
TotalSizes == {0, 11}
CacheHitRatios == {0, 100}
HarpoonCases == {[validation |-> "throws", removedCount |-> 0],
                 [validation |-> "ok", removedCount |-> 0],
                 [validation |-> "ok", removedCount |-> 1]}

\* A checkHealth() that has pushed its seven components and is about to
\* aggregate them, in a service worker whose StateManager is initialised
\* and which is or is not in safe mode.
InitStatus ==
    /\ \E st \in StorageCases, t \in TabHistoryLengths, h \in HarpoonLengths,
          q \in QueueSizes, wn \in WindowInfoLengths, sz \in TotalSizes,
          r \in CacheHitRatios, hp \in HarpoonCases :
          calls = <<[NewCall("checkHealth", NoOp) EXCEPT
                        !.pc = "aggregate",
                        !.components =
                            <<checkStorageHealth(st.info, st.usagePercent, st.write),
                              checkStateManagerHealth(t, h),
                              checkMessagingHealth(q),
                              checkTabManagerHealth(t),
                              checkWindowManagerHealth(wn),
                              checkScreenshotManagerHealth(sz, r),
                              checkHarpoonManagerHealth(hp.validation, hp.removedCount, h,
                                                        DefaultMaxHarpoonTabs)>>]>>
    /\ isInSafeMode \in BOOLEAN
    /\ healthCheckInterval = ~isInSafeMode
    /\ isInitialized = TRUE
    /\ tabHistoryState = <<>>
    /\ harpoonTabsState = <<>>
    /\ harpoonWindowsState = EmptyMap
    /\ windowStatesState = EmptyMap
    /\ systemHealthState = DefaultHealth
    /\ heap = <<>>
    /\ tabHistoryListeners = <<>>
    /\ harpoonTabsListeners = <<>>
    /\ windowStatesListeners = <<>>
    /\ systemHealthListeners = <<>>
    /\ last = NewCall("", NoOp)
    /\ issued = 1
    /\ expected = ExpectedLoaded(EmptyMap)
    /\ now = 0
    /\ readLog = [k \in StorageKeys |-> 0]
    /\ writeLog = [k \in StorageKeys |-> 0]
    /\ maxHarpoonTabs = DefaultMaxHarpoonTabs
    /\ messageCounter = 0
    /\ transactionCounter = 0
    /\ txs = <<>>
    /\ activeTransactions = <<>>
    /\ jobs = <<>>
    /\ lastJob = NewJob("")
    /\ messageQueue = <<>>
    /\ processingQueue = FALSE
    /\ lastHealthCheck = NoHealth
    /\ recoveryInProgress = FALSE
    /\ store = EmptyStore
    /\ present = {}

NextStatus ==
    \/ \E i \in 1..Len(calls) : Aggregate(i)
    \/ \E i \in 1..Len(calls) : PersistSettles(i, "ok")
    \/ \E i \in 1..Len(calls) : PersistSettles(i, "throws")

SpecStatus == InitStatus /\ [][NextStatus]_vars

\* The status the component results call for.
HasCriticalComponent(components) ==
    \E k \in 1..Len(components) : components[k].score < 70
MeanAtLeast(components, bar) ==
    \* sum / n >= bar, n > 0
    SumOfScores(components) >= bar * Len(components)
StatusCalledFor(components) ==
    IF HasCriticalComponent(components) THEN "critical"
    ELSE IF MeanAtLeast(components, 90) THEN "healthy"
    ELSE IF MeanAtLeast(components, 70) THEN "degraded"
    ELSE "critical"
AggregatedRight(result) ==
    result.components # <<>> =>
        /\ result.status = StatusCalledFor(result.components)
        /\ result.status # "recovering"
        /\ \A k \in 1..Len(result.components) :
               (result.components[k].status = "critical") <=> (result.components[k].score < 70)

\* C23: the overall status checkHealth reports is critical if any
\* component is critical (score below 70) whatever the mean, otherwise
\* healthy / degraded / critical by the mean of the component scores (at
\* least 90 / at least 70 / below); it is never 'recovering', in or out of
\* safe mode.
C23_StatusFromComponents ==
    /\ AggregatedRight(lastHealthCheck)
    /\ last.fn = "checkHealth" => AggregatedRight(last.health) /\ last.health.components # <<>>

\* A check has returned critical on account of one component although the
\* mean is at least 90, while the system is in safe mode.
C23_Witness ==
    /\ last.fn = "checkHealth" /\ last.pc = "resolved"
    /\ last.health.status = "critical"
    /\ MeanAtLeast(last.health.components, 90)
    /\ HasCriticalComponent(last.health.components)
    /\ isInSafeMode


(* ----------------------------- health checks --------------------------- *)
MaxCheckCalls == 1

\* Health checks (forced, or from the interval timer) of a service worker
\* started on an empty store, with the store, the window and screenshot
\* managers answering either way.
InitHealth ==
    /\ Constructed
    /\ store = EmptyStore
    /\ present = {}

NextHealth ==
    \/ issued = 0 /\ Initialize
    \/ \E i \in 1..Len(calls) : InitReadOk(i)
    \/ issued <= MaxCheckCalls /\ CheckHealth
    \/ \E i \in 1..Len(calls), u \in {0, 96} : GetStorageInfoSettles(i, "ok", u)
    \/ \E i \in 1..Len(calls) : GetStorageInfoSettles(i, "throws", 0)
    \/ \E i \in 1..Len(calls), wr \in WriteOutcomes : StorageTestWriteSettles(i, wr)
    \/ \E i \in 1..Len(calls), n \in WindowInfoLengths : GetAllWindowsAnswers(i, n)
    \/ \E i \in 1..Len(calls), sz \in TotalSizes, r \in CacheHitRatios :
          ScreenshotStatsAnswer(i, sz, r)
    \/ \E i \in 1..Len(calls) : PersistSettles(i, "ok")
    \/ \E i \in 1..Len(calls) : PersistSettles(i, "throws")

SpecHealth == InitHealth /\ [][NextHealth]_vars

\* An activation of fn settles in this step.
ReturnsNow(fn) == Len(calls') < Len(calls) /\ last'.fn = fn

\* C24: checkHealth never rejects; when a component check or the
\* persistence of the result has thrown, the result it resolves with is
\* critical, carries at least one recommendation and is what
\* getCurrentHealth() returns.
C24_ThrowMakesCritical ==
    ReturnsNow("checkHealth") =>
        /\ last'.pc = "resolved"
        /\ last'.threw # {} =>
              /\ last'.health.status = "critical"
              /\ Len(last'.health.recommendations) >= 1
              /\ lastHealthCheck' = last'.health
C24_Claim == [][C24_ThrowMakesCritical]_vars


(* ------------------------------- recovery ------------------------------ *)
MaxRecoveryCalls == 4

RecoveryOpenTabs == {<<>>, <<ChromeTab(1, "https://a", 1)>>}
RecoveryOutcomes == {"response", "lastError"}

\* Recoveries, after at most one health check, of a service worker started
\* on an empty store, with messages being queued meanwhile.
InitRecovery ==
    /\ Constructed
    /\ store = EmptyStore
    /\ present = {}

NextRecovery ==
    \/ issued = 0 /\ Initialize
    \/ \E i \in 1..Len(calls) : InitReadOk(i)
    \/ issued = 1 /\ CheckHealth
    \/ /\ issued >= 1 /\ issued <= MaxRecoveryCalls
       /\ last.returned = ""               \* until the first recoverFromCorruption returns
       /\ RecoverFromCorruption
    \/ /\ issued >= 1 /\ issued <= MaxRecoveryCalls
       /\ Len(messageQueue) = 0 /\ lastJob.fn # "processQueue"
       /\ EnqueueMessage([id |-> issued + 1, type |-> "tabsUpdated", priority |-> "medium",
                           maxRetries |-> 1], 1, 0, FALSE)
    \/ \E i \in 1..Len(calls), info \in InfoOutcomes : GetStorageInfoSettles(i, info, 0)
    \/ \E i \in 1..Len(calls) : StorageTestWriteSettles(i, "ok")
    \/ \E i \in 1..Len(calls) : GetAllWindowsAnswers(i, 1)
    \/ \E i \in 1..Len(calls) : ScreenshotStatsAnswer(i, 0, 100)
    \/ \E i \in 1..Len(calls) : PersistSettles(i, "ok")
    \/ \E i \in 1..Len(calls) : CleanupScreenshotsEnds(i)
    \/ \E i \in 1..Len(calls), wr \in WriteOutcomes : ResetWriteSettles(i, wr)
    \/ \E j \in 1..Len(jobs), tabs \in RecoveryOpenTabs : QueryAnswers(j, tabs)
    \/ \E j \in 1..Len(jobs) : QueryThrows(j)
    \/ \E j \in 1..Len(jobs), k \in 1..MaxTabId, o \in RecoveryOutcomes : AttemptSettles(j, k, o)
    \/ \E j \in 1..Len(jobs), k \in 1..MaxTabId : DelayElapses(j, k)

SpecRecovery == InitRecovery /\ [][NextRecovery]_vars

\* The recoveries past the guard and not yet returned.
InExecution == {i \in 1..Len(calls) : calls[i].recovering}

\* recoverFromCorruption() is called in this step.
RecoveryCalled ==
    /\ issued' = issued + 1
    /\ \/ calls' = calls /\ last' # last /\ last'.fn = "recoverFromCorruption"
       \/ /\ Len(calls') = Len(calls) + 1
          /\ calls'[Len(calls')].fn = "recoverFromCorruption"

\* C25: at most one recovery is in execution at any time, and a
\* recoverFromCorruption() called while one is in execution returns false
\* at once: it does not enter safe mode, clear the queue, broadcast or
\* execute a plan action.
C25_RefusedAtOnce ==
    (RecoveryCalled /\ InExecution # {}) =>
        /\ calls' = calls
        /\ last'.pc = "resolved" /\ last'.returned = "false"
        /\ ~last'.recovering /\ last'.executed = <<>> /\ ~last'.postChecked
        /\ UNCHANGED <<recoveryVars, brokerVars>>
C25_OneAtATime ==
    /\ Cardinality(InExecution) <= 1
    /\ recoveryInProgress <=> InExecution # {}
C25_Theorem == []C25_OneAtATime /\ [][C25_RefusedAtOnce]_vars

\* A call has been refused while another recovery is at its plan and a
\* message is waiting in the queue.
C25_Witness ==
    /\ last.fn = "recoverFromCorruption" /\ last.returned = "false" /\ ~last.recovering
    /\ \E i \in InExecution : calls[i].pc = "cleanupScreenshots"
    /\ Len(messageQueue) > 0

\* C26: an executed recovery that returns true has left safe mode, its plan
\* having succeeded and the post-recovery status being healthy or degraded;
\* one that returns false leaves the system in safe mode.
C26_SafeModeOnReturn ==
    (Len(calls') < Len(calls) /\ last'.recovering) =>
        /\ last'.returned = "true" =>
              /\ ~isInSafeMode'
              /\ ~last'.failed /\ last'.postChecked
              /\ last'.health.status \in {"healthy", "degraded"}
        /\ last'.returned = "false" => isInSafeMode'
C26_Claim == [][C26_SafeModeOnReturn]_vars

IsPrefixOf(s, t) == Len(s) <= Len(t) /\ \A k \in 1..Len(s) : s[k] = t[k]

\* How far a recovery has got with its plan.
PlanInOrder(c) ==
    /\ IsPrefixOf(c.executed, c.plan)
    /\ c.postChecked => c.executed = c.plan /\ ~c.failed
    /\ c.failed => c.returned = "false" /\ c.pc = "resolved" /\ ~c.postChecked

\* C27: the plan is executed action by action in plan order; once an
\* action has failed no later action is executed, no post-recovery health
\* check is run and recoverFromCorruption returns false.
C27_PlanInOrder ==
    /\ \A i \in 1..Len(calls) : PlanInOrder(calls[i])
    /\ PlanInOrder(last)
C27_OneActionAtATime ==
    \A i \in 1..Len(calls) :
        (i <= Len(calls') /\ calls'[i].recovering /\ calls[i].recovering
            /\ calls'[i].executed # calls[i].executed) =>
            /\ IsPrefixOf(calls[i].executed, calls'[i].executed)
            /\ calls[i].pc \in {"enterSafeMode", "cleanupScreenshots"}
C27_Theorem == []C27_PlanInOrder /\ [][C27_OneActionAtATime]_vars

\* The reset action of a three-action plan has failed and the recovery has
\* returned false.
C27_Witness ==
    /\ last.recovering /\ last.failed /\ last.returned = "false"
    /\ last.plan = <<"screenshots", "tabs", "state">>
    /\ last.executed = last.plan


(* ------------------------------ error events --------------------------- *)
MaxErrors == 12

\* Uncaught errors reported one after the other to a service worker started
\* on an empty store; every write of the error count is accepted.
InitErrors ==
    /\ Constructed
    /\ store = EmptyStore
    /\ present = {}

NextErrors ==
    \/ issued = 0 /\ Initialize
    \/ \E i \in 1..Len(calls) : InitReadOk(i)
    \/ calls = <<>> /\ issued >= 1 /\ issued <= MaxErrors /\ HandleError
    \/ \E i \in 1..Len(calls) : ErrorWriteSettles(i, "ok")
    \/ \E j \in 1..Len(jobs), tabs \in RecoveryOpenTabs : QueryAnswers(j, tabs)
    \/ \E j \in 1..Len(jobs), k \in 1..MaxTabId, o \in RecoveryOutcomes : AttemptSettles(j, k, o)
    \/ \E j \in 1..Len(jobs), k \in 1..MaxTabId : DelayElapses(j, k)
    \/ \E i \in 1..Len(calls) : CleanupScreenshotsEnds(i)
    \/ \E i \in 1..Len(calls), wr \in WriteOutcomes : ResetWriteSettles(i, wr)
    \/ \E i \in 1..Len(calls), info \in InfoOutcomes : GetStorageInfoSettles(i, info, 0)
    \/ \E i \in 1..Len(calls) : StorageTestWriteSettles(i, "ok")
    \/ \E i \in 1..Len(calls) : GetAllWindowsAnswers(i, 1)
    \/ \E i \in 1..Len(calls) : ScreenshotStatsAnswer(i, 0, 100)
    \/ \E i \in 1..Len(calls) : PersistSettles(i, "ok")

SpecErrors == InitErrors /\ [][NextErrors]_vars

\* The errors handled so far: handleError has been called for each and has
\* returned.
Handled == (issued - 1) - Cardinality({i \in 1..Len(calls) : calls[i].fn = "handleError"})

\* C28: from errorCount 0, every handled error raises the persisted count
\* by one; when the 10th error in a row has been handled
\* recoverFromCorruption has been invoked by the handler, and it has not
\* been while fewer than 10 have been handled.
C28_TripWire ==
    (isInitialized /\ calls = <<>> /\ last.fn = "handleError") =>
        /\ Handled <= CriticalErrorThreshold =>
              /\ store.systemHealth.errorCount = Handled
              /\ systemHealthState.errorCount = Handled
        /\ Handled < CriticalErrorThreshold => ~last.recovering /\ ~isInSafeMode
        /\ Handled = CriticalErrorThreshold => last.recovering


(* --------------------------- SystemHealth writers ---------------------- *)
MaxHealthWriters == 3

\* The three callers of updateSystemHealth at work together: error events,
\* health checks, and addTabToHarpoon calls whose change the
\* HarpoonManager's listener reports.
InitWriters ==
    /\ Constructed
    /\ store = EmptyStore
    /\ present = {}

NextWriters ==
    \/ issued = 0 /\ harpoonTabsListeners = <<>> /\ SubscribeToHarpoonTabs(HarpoonManagerListener)
    \/ issued = 0 /\ harpoonTabsListeners # <<>> /\ Initialize
    \/ \E i \in 1..Len(calls) : InitReadOk(i)
    \/ issued >= 1 /\ issued <= MaxHealthWriters /\ HandleError
    \/ issued >= 1 /\ issued <= MaxHealthWriters /\ CheckHealth
    \/ isInitialized /\ issued <= MaxHealthWriters /\ AddTabToHarpoon(1)
    \/ \E i \in 1..Len(calls) : GetChromeTabAnswers(i, Tab(1, 1, "u", "t"))
    \/ \E i \in 1..Len(calls) : GetScreenshotSettles(i)
    \/ \E i \in 1..Len(calls) : AddWriteOk(i)
    \/ \E i \in 1..Len(calls) : StorageWriteOk(i)
    \/ \E i \in 1..Len(calls) : StorageWriteFail(i)
    \/ \E i \in 1..Len(calls), wr \in WriteOutcomes : ErrorWriteSettles(i, wr)
    \/ \E i \in 1..Len(calls) : GetStorageInfoSettles(i, "ok", 0)
    \/ \E i \in 1..Len(calls) : StorageTestWriteSettles(i, "ok")
    \/ \E i \in 1..Len(calls) : GetAllWindowsAnswers(i, 1)
    \/ \E i \in 1..Len(calls) : ScreenshotStatsAnswer(i, 0, 100)
    \/ \E i \in 1..Len(calls), wr \in WriteOutcomes : PersistSettles(i, wr)

SpecWriters == InitWriters /\ [][NextWriters]_vars

\* C29: under every interleaving of the updateSystemHealth calls of the
\* error handler, of checkHealth and of the harpoon change listener, the
\* in-memory errorCount never decreases, and each handled error whose write
\* was accepted raises it by one (no update is lost).
C29_Monotone ==
    /\ systemHealthState'.errorCount >= systemHealthState.errorCount
    /\ (ReturnsNow("handleError") /\ last'.threw = {}) =>
           systemHealthState'.errorCount = systemHealthState.errorCount + 1
C29_Claim == [][C29_Monotone]_vars

(* ----------------------------- withTransaction ------------------------- *)
\* This step is the return of a withTransaction.
WithTransactionReturns == Len(jobs') < Len(jobs) /\ lastJob'.fn = "withTransaction"

\* What a withTransaction that returns now leaves behind: resolved, the
\* transaction is committed and the buffer was sent in order with all its
\* results returned; rejected, the transaction is rolled back and the error
\* thrown is the one the catch block caught; either way the transaction is
\* out of the active table.
C31_Discipline ==
    WithTransactionReturns =>
        LET job == lastJob'
            tx == txs'[job.tx] IN
        /\ \A k \in 1..Len(activeTransactions') : activeTransactions'[k] # job.tx
        /\ job.pc = "resolved" =>
              /\ tx.committed /\ ~tx.rolledBack
              /\ SentInBufferOrder(job) /\ ReturnedAll(job)
        /\ job.pc = "rejected" =>
              /\ tx.rolledBack /\ ~tx.committed
              /\ job.err = job.thrown

\* C31: when fn resolves, withTransaction commits the buffered messages in
\* order and returns their results; when fn or the commit throws, the
\* transaction ends rolled back and out of the active table, and the caller
\* receives the original error.
C31_Claim == [][C31_Discipline]_vars

\* fn has thrown after rolling its transaction back itself, and the caller
\* has received the error of the second rollback.
C31_Masked ==
    /\ lastJob.fn = "withTransaction" /\ lastJob.pc = "rejected"
    /\ lastJob.thrown = FnError /\ lastJob.err = NoLongerActive

(* ------------------------------ the full queue ------------------------- *)
\* The queue holds the messages in the order in which they were enqueued
\* (message ids are issued in that order), so its head is the oldest.
InEnqueueOrder ==
    \A k \in 1..(Len(messageQueue) - 1) :
        messageQueue[k].message.id < messageQueue[k + 1].message.id

\* An enqueueMessage on a full queue drops the head and appends the new
\* message, whatever the priorities are.
C32_DropsOldest ==
    issued' = issued + 1 /\ Len(messageQueue) >= MaxQueueSize =>
        /\ Len(messageQueue') = MaxQueueSize
        /\ SubSeq(messageQueue', 1, MaxQueueSize - 1) = Tail(messageQueue)
        /\ messageQueue'[MaxQueueSize].message.id = issued + 1

\* C32: the queue never holds more than maxQueueSize messages, and an
\* enqueueMessage on a full queue drops the message enqueued first, never
\* the new one and never a newer one of higher priority.
C32_Theorem ==
    /\ [](Len(messageQueue) <= MaxQueueSize /\ InEnqueueOrder)
    /\ [][C32_DropsOldest]_vars

\* The queue is full after it has dropped its oldest message: the second
\* oldest, of high priority, is now at the head, and the newest one, of low
\* priority, is at the end.
C32_Witness ==
    /\ Len(messageQueue) = MaxQueueSize
    /\ messageQueue[1].message.id = 3 /\ messageQueue[1].message.priority = "high"
    /\ messageQueue[MaxQueueSize].message.priority = "low"

(* -------------------------------- safe mode ---------------------------- *)
\* Recoveries of a service worker started on an empty store, with the
\* health check timer running and messages being queued meanwhile.
NextSafe ==
    \/ issued = 0 /\ Initialize
    \/ \E i \in 1..Len(calls) : InitReadOk(i)
    \/ issued >= 1 /\ issued <= MaxSafeCalls /\ Len(calls) <= 1 /\ HealthCheckTick
    \/ issued >= 1 /\ issued <= MaxSafeCalls /\ last.returned = "" /\ RecoverFromCorruption
    \/ /\ issued >= 1 /\ issued <= MaxSafeCalls
       /\ Len(messageQueue) = 0 /\ lastJob.fn # "processQueue"
       /\ EnqueueMessage([id |-> issued + 1, type |-> "tabsUpdated", priority |-> "medium",
                           maxRetries |-> 1], 1, 0, FALSE)
    \/ \E i \in 1..Len(calls) : GetStorageInfoSettles(i, "ok", 0)
    \/ \E i \in 1..Len(calls) : StorageTestWriteSettles(i, "ok")
    \/ \E i \in 1..Len(calls) : GetAllWindowsAnswers(i, 1)
    \/ \E i \in 1..Len(calls) : ScreenshotStatsAnswer(i, 0, 100)
    \/ \E i \in 1..Len(calls) : PersistSettles(i, "ok")
    \/ \E i \in 1..Len(calls) : CleanupScreenshotsEnds(i)
    \/ \E j \in 1..Len(jobs), tabs \in RecoveryOpenTabs : QueryAnswers(j, tabs)
    \/ \E j \in 1..Len(jobs) : QueryThrows(j)
    \/ \E j \in 1..Len(jobs), k \in 1..MaxTabId : AttemptSettles(j, k, "response")

SpecSafe == InitRecovery /\ [][NextSafe]_vars

\* This step enters safe mode: a recoverFromCorruption() has passed its
\* guard and is at the broadcast of enterSafeMode().
EntersSafeMode == Entered /\ NewestCall.pc = "enterSafeMode"

\* This step is the exitSafeMode() of a recovery up to its broadcast.
ExitsSafeMode ==
    /\ Len(calls') = Len(calls)
    /\ \E i \in 1..Len(calls) : calls[i].pc # "exitSafeMode" /\ calls'[i].pc = "exitSafeMode"

\* This step is a callback of the health check timer.
TimerDriven == Entered /\ NewestCall.viaTimer

\* Entering safe mode sets the flag, empties the queue, stops the timer and
\* starts the broadcast of safeModeEntered to all tabs.
C33_OnEntry ==
    EntersSafeMode =>
        /\ isInSafeMode' /\ messageQueue' = <<>> /\ ~healthCheckInterval'
        /\ Len(jobs') = Len(jobs) + 1
        /\ LET job == jobs'[Len(jobs')] IN
              /\ job.fn = "broadcastToAllTabs" /\ job.kind = "all"
              /\ job.message.type = "safeModeEntered"

\* A delivery from the queue is of a message that was in the queue, or of
\* the one enqueued in this step: one that was removed is not delivered.
C33_DeliversFromQueue ==
    TakesFromQueue =>
        LET taken == Drains(jobs')[1].queuedMessage.message.id IN
        \/ \E k \in 1..Len(messageQueue) : messageQueue[k].message.id = taken
        \/ taken = issued + 1 /\ issued' = issued + 1

\* No callback of the timer runs in safe mode, and exitSafeMode() starts
\* the timer again.
C33_Timer ==
    /\ TimerDriven => ~isInSafeMode
    /\ ExitsSafeMode => ~isInSafeMode' /\ healthCheckInterval'

\* The broadcast of safeModeEntered, when it returns, has gone to every
\* tab that was eligible.
C33_Broadcast ==
    lastJob.fn = "broadcastToAllTabs" /\ lastJob.message.type = "safeModeEntered"
    /\ lastJob.pc = "resolved" => SendsMatchEligible(lastJob)

\* C33: entering safe mode sets isInSafeMode, empties the message queue (no
\* message queued at that moment is delivered afterwards), stops the health
\* check timer and broadcasts safeModeEntered to all eligible tabs; in safe
\* mode the timer starts no health check, and the timer is running again
\* after safe mode is left.
C33_Theorem ==
    /\ [](C33_Broadcast /\ (isInSafeMode => ~healthCheckInterval))
    /\ [][C33_OnEntry /\ C33_DeliversFromQueue /\ C33_Timer]_vars

\* Safe mode was entered and left: the recovery has returned true after
\* safeModeEntered went to tab 1, the timer is running again, and its
\* callback has started a health check.
C33_Witness ==
    /\ last.fn = "recoverFromCorruption" /\ last.returned = "true"
    /\ ~isInSafeMode /\ healthCheckInterval
    /\ \E i \in 1..Len(calls) : calls[i].viaTimer

(* ------------------------ recovery after a failure --------------------- *)
\* Recoveries one after the other has failed or was refused: the
\* broadcasts may throw and the storage may fail the post-recovery check.
NextRetry ==
    \/ issued = 0 /\ Initialize
    \/ \E i \in 1..Len(calls) : InitReadOk(i)
    \/ /\ issued >= 1 /\ issued <= MaxRetryCalls
       /\ issued = 1 \/ (last.fn = "recoverFromCorruption" /\ last.returned = "false")
       /\ RecoverFromCorruption
    \/ \E i \in 1..Len(calls), info \in InfoOutcomes : GetStorageInfoSettles(i, info, 0)
    \/ \E i \in 1..Len(calls) : StorageTestWriteSettles(i, "ok")
    \/ \E i \in 1..Len(calls) : GetAllWindowsAnswers(i, 1)
    \/ \E i \in 1..Len(calls) : ScreenshotStatsAnswer(i, 0, 100)
    \/ \E i \in 1..Len(calls) : PersistSettles(i, "ok")
    \/ \E i \in 1..Len(calls) : CleanupScreenshotsEnds(i)
    \/ \E i \in 1..Len(calls), wr \in WriteOutcomes : ResetWriteSettles(i, wr)
    \/ \E j \in 1..Len(jobs), tabs \in RecoveryOpenTabs : QueryAnswers(j, tabs)
    \/ \E j \in 1..Len(jobs) : QueryThrows(j)
    \/ \E j \in 1..Len(jobs), k \in 1..MaxTabId : AttemptSettles(j, k, "response")

SpecRetry == InitRecovery /\ [][NextRetry]_vars

\* The flag is set exactly while a recovery is between its guard and its
\* return.
FlagWhileInExecution == recoveryInProgress <=> InExecution # {}

\* A recovery that returns, on whichever path, leaves the flag cleared; a
\* call made while the flag is clear is accepted; and a recovery whose
\* plan succeeded and whose post-recovery status is healthy or degraded
\* leaves isInSafeMode false.
C34_OnReturn ==
    /\ (Len(calls') < Len(calls) /\ last'.recovering) =>
          /\ ~recoveryInProgress'
          /\ (~last'.failed /\ last'.postChecked
              /\ last'.health.status \in {"healthy", "degraded"}) => ~isInSafeMode'
    /\ (RecoveryCalled /\ ~recoveryInProgress) =>
          Entered /\ NewestCall.recovering

\* C34: recoveryInProgress is cleared on every path on which a recovery
\* completes, so that after a failed recovery a later call is accepted,
\* and leaves safe mode if its plan succeeds and its post-recovery check
\* is healthy or degraded.
C34_Theorem == []FlagWhileInExecution /\ [][C34_OnReturn]_vars

\* A recovery called after the failure of the one before it has been
\* accepted and has returned true, out of safe mode.
C34_Witness ==
    /\ issued >= 3
    /\ last.fn = "recoverFromCorruption" /\ last.recovering /\ last.returned = "true"
    /\ ~isInSafeMode /\ ~recoveryInProgress

(* --------------------------- cleanupInvalidTabs ------------------------ *)
\* A cleanup of the state loaded from a seeded store: Chrome answers the
\* validations for every tab and window id, the writes settle or fail and
\* the broadcasts that follow settle or throw.
InitCleanup ==
    /\ Constructed
    /\ store = SeedStore
    /\ present = SeedKeys

NextCleanup ==
    \/ issued = 0 /\ Initialize
    \/ \E i \in 1..Len(calls) : InitReadOk(i)
    \/ issued >= 1 /\ issued <= MaxCleanupCalls /\ CleanupInvalidTabs
    \/ \E i \in 1..Len(calls) :
          \E tabAnswers \in [1..MaxTabId -> ChromeAnswers],
             windowAnswers \in [1..MaxWindowId -> ChromeAnswers] :
              ValidationsSettle(i, tabAnswers, windowAnswers)
    \/ \E i \in 1..Len(calls), wr \in WriteOutcomes : CleanupHistoryWriteSettles(i, wr)
    \/ \E i \in 1..Len(calls), wr \in WriteOutcomes : CleanupHarpoonWriteSettles(i, wr)
    \/ \E i \in 1..Len(calls), n \in 0..1 : CleanupGetAllWindowsAnswers(i, n)
    \/ \E i \in 1..Len(calls) : CleanupBroadcastStarts(i)
    \/ \E j \in 1..Len(jobs), tabs \in RecoveryOpenTabs : QueryAnswers(j, tabs)
    \/ \E j \in 1..Len(jobs) : QueryThrows(j)
    \/ \E j \in 1..Len(jobs), k \in 1..MaxTabId : AttemptSettles(j, k, "response")

SpecCleanup == InitCleanup /\ [][NextCleanup]_vars

\* Chrome has told the cleanup c that the tab, or its window, does not
\* exist / that both exist.
GoneFor(c, tab) ==
    \/ c.cleanup.tabAnswers[tab.id] = "lastError"
    \/ c.cleanup.windowAnswers[tab.windowId] = "lastError"
ExistsFor(c, tab) ==
    /\ c.cleanup.tabAnswers[tab.id] = "found"
    /\ c.cleanup.windowAnswers[tab.windowId] = "found"

\* A cleanupInvalidTabs that returns leaves no tab in the history or in a
\* harpoon partition that Chrome said was gone, and leaves in place every
\* tab that Chrome said exists.
C35_CleanedUp ==
    (Len(calls') < Len(calls) /\ last'.fn = "cleanupInvalidTabs") =>
        LET history == tabHistoryState'
            harpoon == Flat(harpoonWindowsState')
        IN /\ \A k \in 1..Len(history) : ~GoneFor(last', history[k])
           /\ \A k \in 1..Len(harpoon) : ~GoneFor(last', harpoon[k])
           /\ \A k \in 1..Len(last'.cleanup.allTabs) :
                 ExistsFor(last', last'.cleanup.allTabs[k]) =>
                     \E n \in 1..Len(history) : history[n] = last'.cleanup.allTabs[k]
           /\ \A k \in 1..Len(last'.cleanup.harpoonTabs) :
                 ExistsFor(last', last'.cleanup.harpoonTabs[k]) =>
                     \E n \in 1..Len(harpoon) : harpoon[n] = last'.cleanup.harpoonTabs[k]

\* C35: after cleanupInvalidTabs has completed, neither the tab history nor
\* a harpoon partition holds a tab whose id, or whose window, no longer
\* exists in Chrome, and no tab that exists has been removed.
C35_Claim == [][C35_CleanedUp]_vars

(* ------------------------ overlapping initialization ------------------- *)
\* Start-up on a seeded store while a host event arrives: initialize() and
\* updateTabHistory({type: 'add', tab}) for a tab not yet in the history
\* are called in either order, before or after the other has finished.
OverlapInitOps == {Op("add", 0, TRUE, TabB, 0, FALSE, <<>>)}
InitOverlapInit ==
    /\ Constructed
    /\ store = SeedStore
    /\ present = SeedKeys
NextOverlapInit ==
    \/ issued < MaxInitCalls /\ Initialize
    \/ \E op \in OverlapInitOps : issued < MaxInitCalls /\ UpdateTabHistory(op)
    \/ \E i \in 1..Len(calls) : InitReadOk(i)
    \/ \E i \in 1..Len(calls) : StorageWriteOk(i)
SpecOverlapInit == InitOverlapInit /\ [][NextOverlapInit]_vars

\* At most one activation is in the body of initialize().
C36_LoadedOnce ==
    Cardinality({i \in 1..Len(calls) :
                    calls[i].ranInit /\ calls[i].pc \in ReadPcs \cup InitWritePcs}) <= 1

\* An initialize() that completes on an initialised manager assigns no
\* slice a value other than the one it has.
C36_NotOverwritten ==
    \A i \in 1..Len(calls) :
        (isInitialized /\ CompletesInitialize(i) /\ calls[i].fn = "initialize") =>
            UNCHANGED <<tabHistoryState, harpoonWindowsState, windowStatesState,
                        systemHealthState>>

\* C36: when calls that run initialize() overlap, the store is loaded once,
\* and no slice that an operation has changed in memory is overwritten by
\* an initialize() that completes later with what it read earlier.
C36_Claim == []C36_LoadedOnce /\ [][C36_NotOverwritten]_vars

\* The same, without the requirement that the store be loaded once.
C36_OverwriteOnly == [][C36_NotOverwritten]_vars

(* ------------------------ the frame of the enforcement ----------------- *)
\* The harpoon limit on a store whose window 1 holds three tabs in the
\* order in which they were added and whose window 2 holds two: the limit
\* is set, tab 1 is added again, and the writes settle.
EnforceStore ==
    [EmptyStore EXCEPT
        !.harpoonWindows =
            MapSet(MapSet(EmptyMap, 1, <<Tab(1, 1, "u", "t"), Tab(2, 1, "u", "t"),
                                         Tab(3, 1, "u", "t")>>),
                   2, <<Tab(4, 2, "u", "t"), Tab(5, 2, "u", "t")>>)]
InitEnforce ==
    /\ Constructed
    /\ store = EnforceStore
    /\ present = SeedKeys
NextEnforce ==
    \/ issued = 0 /\ Initialize
    \/ \E i \in 1..Len(calls) : InitReadOk(i)
    \/ \E max \in 1..MaxEnforceLimit :
          isInitialized /\ issued <= MaxEnforceCalls /\ SetMaxHarpoonTabs(max)
    \/ isInitialized /\ issued <= MaxEnforceCalls /\ AddTabToHarpoon(1)
    \/ \E i \in 1..Len(calls) : GetChromeTabAnswers(i, Tab(1, 1, "u", "t"))
    \/ \E i \in 1..Len(calls) : GetScreenshotSettles(i)
    \/ \E i \in 1..Len(calls) : AddWriteOk(i)
    \/ \E i \in 1..Len(calls) : EnforceWriteOk(i)
    \/ \E i \in 1..Len(calls) : EnforceWriteFail(i)
SpecEnforce == InitEnforce /\ [][NextEnforce]_vars

RECURSIVE IsSubsequenceOf(_, _)
IsSubsequenceOf(s, t) ==
    IF s = <<>> THEN TRUE
    ELSE IF t = <<>> THEN FALSE
    ELSE IF Head(s) = Head(t) THEN IsSubsequenceOf(Tail(s), Tail(t))
    ELSE IsSubsequenceOf(s, Tail(t))

\* This step is enforceMaxHarpoonTabs(w) trimming the partition of w: an
\* enforcement of w has come to await, in this step, the write of what the
\* slice now is.
EnforcedNow(w) ==
    \E i \in 1..Len(calls') :
        /\ calls'[i].pc = "awaitEnforceWrite" /\ calls'[i].op.windowId = w
        /\ calls'[i].newWindows = harpoonWindowsState'
        /\ \A j \in 1..Len(calls) : calls[j] # calls'[i]

\* An enforcement of window w leaves in its partition a subsequence of
\* what was there, and leaves the partitions of the other windows alone.
C37_Frame ==
    \A w \in DOMAIN harpoonWindowsState :
        EnforcedNow(w) =>
            /\ IsSubsequenceOf(PartitionOf(harpoonWindowsState', w),
                               PartitionOf(harpoonWindowsState, w))
            /\ \A v \in DOMAIN harpoonWindowsState \ {w} :
                  PartitionOf(harpoonWindowsState', v) = PartitionOf(harpoonWindowsState, v)

\* C37: the enforcement of the harpoon limit on a window only removes
\* entries of that window's partition: the entries it keeps stay in their
\* relative order, and no other window's partition changes.
C37_Claim == [][C37_Frame]_vars

(* --------------------------- overlapping commits ----------------------- *)
\* The commitTransaction activations on transaction h that are pending or
\* have settled last.
CommitsOn(h) ==
    {jobs[j] : j \in {x \in 1..Len(jobs) :
                         jobs[x].fn = "commitTransaction" /\ jobs[x].tx = h}}
    \cup (IF lastJob.fn = "commitTransaction" /\ lastJob.tx = h /\ lastJob.pc = "resolved"
          THEN {lastJob} ELSE {})

\* No two commitTransaction activations have sent the same buffered
\* message of a transaction.
C38_SentOnce ==
    \A h \in 1..Len(txs) : \A a, b \in CommitsOn(h) :
        a # b => \A t \in a.trace : \A u \in b.trace : t.idx # u.idx

\* A commitTransaction returns results only for a transaction that no
\* other call has committed.
C38_ReturnsOnce ==
    \A j \in 1..Len(jobs) :
        (/\ jobs[j].fn = "commitTransaction"
         /\ Len(jobs') < Len(jobs) /\ jobs' = RemoveAt(jobs, j)
         /\ lastJob'.pc = "resolved") => ~txs[jobs[j].tx].committed

\* C38: under every interleaving of commitTransaction calls on the same
\* transaction, the transaction is committed at most once: each buffered
\* message is sent at most once and at most one call returns results.
C38_Claim == []C38_SentOnce /\ [][C38_ReturnsOnce]_vars

\* The same, looking at the returns only.
C38_ReturnsOnly == [][C38_ReturnsOnce]_vars

\* ---------------------------------------------------------------------
\* C39: a sendMessage delivers its message to the endpoint at most once:
\* whatever the endpoint answers and whichever attempt timers fire, the
\* endpoint never receives the message of one send more than once, and a
\* send whose result is a failure was not received by the endpoint.
SendMessages ==
    {jobs[j] : j \in {x \in 1..Len(jobs) : jobs[x].fn = "sendMessage"}}
        \cup (IF lastJob.fn = "sendMessage" THEN {lastJob} ELSE {})

C39_ReceivedOnce ==
    \A job \in SendMessages : \A k \in 1..Len(job.sends) : job.sends[k].received <= 1

C39_FailedNotReceived ==
    \A job \in SendMessages : \A k \in 1..Len(job.sends) :
        (job.sends[k].pc = "done" /\ ~job.sends[k].result.success) => job.sends[k].received = 0

C39_Claim == C39_ReceivedOnce /\ C39_FailedNotReceived

\* ---------------------------------------------------------------------
\* C40: a recovery-plan action marked non-automated is never executed by
\* an automatic recovery. The state-reset action is in a plan only when the
\* last health check before planning was critical, it makes the plan's
\* riskLevel high and requiresUserConsent true, and no plan with
\* requiresUserConsent true has its reset action executed (the program has
\* no way of being given consent); a plan without a reset holds automated
\* cleanup actions only.
Recoveries ==
    {calls[i] : i \in {x \in 1..Len(calls) : calls[x].plan # <<>>}}
        \cup (IF last.plan # <<>> THEN {last} ELSE {})

HasReset(actions) == \E k \in 1..Len(actions) : actions[k] = "state"

C40_PlanShape ==
    \A c \in Recoveries :
        /\ HasReset(c.plan) => riskLevel(c.plan) = "high" /\ requiresUserConsent(c.plan)
        /\ ~HasReset(c.plan) =>
               \A k \in 1..Len(c.plan) :
                   automated(c.plan[k]) /\ actionType(c.plan[k]) = "cleanup"

\* The step in which a recovery makes its plan.
C40_ResetOnlyWhenCritical ==
    \A i \in 1..Len(calls) :
        (i <= Len(calls') /\ calls[i].recovering /\ calls[i].plan = <<>> /\ calls'[i].plan # <<>>)
            => (HasReset(calls'[i].plan) <=> lastHealthCheck.status = "critical")

C40_NoResetWithoutConsent ==
    \A c \in Recoveries : requiresUserConsent(c.plan) => ~HasReset(c.executed)

C40_Claim ==
    []C40_PlanShape /\ [][C40_ResetOnlyWhenCritical]_vars /\ []C40_NoResetWithoutConsent

\* The parts of C40 about the making of the plan.
C40_PlanOnly == []C40_PlanShape /\ [][C40_ResetOnlyWhenCritical]_vars

====
